---------------------------- MODULE Spec2Model ----------------------------
(***************************************************************************)
(* Model of the MyDays notification delivery subsystem.                    *)
(*                                                                         *)
(* Server side (functions/index.js): the four Firestore-triggered handlers *)
(* notifyAdminOnJoinRequest, notifyOnPersonalAlarm, notifyOnGroupAlarm and *)
(* notifyAdminOnMemberLeft, with the helpers sendHighPriorityNotification, *)
(* getFCMTokens and sanitizeAlarmLabel.  Every await of a handler is one   *)
(* step of the model, so that the client's token write and the settling of *)
(* the concurrent sends interleave with it as they do at run time.  The    *)
(* group document is an input of the handler that reads it: groupRef.get() *)
(* resolves to any of the documents of GroupDocs.                          *)
(*                                                                         *)
(* Text values: a JavaScript string is a sequence of fragments; the        *)
(* fragments of labels, names and titles are single characters (so Len is  *)
(* the string's length), the fragments of bodies are template pieces.      *)
(* A JavaScript value that may not be a string is a record                 *)
(* [kind, chars] with kind "string" or "null".                             *)
(***************************************************************************)
EXTENDS Integers, Sequences, FiniteSets, TLC

\* ------------------------------------------------------------------ bounds
MaxMembers == 3      \* longest members array of the group document
MaxEvents == 1       \* created documents dispatched in one behaviour
MaxSaves == 1        \* client token writes in one behaviour
MaxStarts == 2       \* calls of startConnectionMonitor in one page
MaxOffline == 2      \* times the network goes offline in one page
MaxShort == 3        \* longest raw label of which every spelling is drawn
MaxOver == 2         \* characters by which the longest raw label exceeds the limit
MaxRetriesOpt == 2   \* largest options.maxRetries passed explicitly
MaxWindows == 2      \* UI instances open in the agent's scope
MaxMessages == 2     \* control messages the agent receives in one behaviour
MaxPings == 2        \* pings, and registrations, of the page's keep-alive pinger

\* ------------------------------------------------------- program constants
MAX_LENGTH == 100    \* sanitizeAlarmLabel: longest label kept whole
OFFLINE_THRESHOLD_MS == 10000   \* connectionMonitor.ts: offline time before a reset
DEFAULT_DELAY_MS == 800         \* withRetryOnIndexedDBClosed: delay before a retry
DEFAULT_MAX_RETRIES == 3        \* withRetryOnIndexedDBClosed: retries after the first attempt

\* ------------------------------------------------------------ value spaces
Users == {"A", "B", "C"}
Tokens == {"t1", "t2"}
NoToken == "null"                      \* users/{uid}.fcmToken null or absent
GroupId == "G1"
WS == {" ", "\t"}                      \* characters JavaScript's \s matches

JsNull == [kind |-> "null", chars |-> <<>>]
JsStr(s) == [kind |-> "string", chars |-> s]
JsNum(s) == [kind |-> "number", chars |-> s]   \* a number, by its digits
Truthy(v) == v.kind = "string" /\ v.chars # <<>>

DEFAULT == <<"N","u","e","v","a"," ","A","l","a","r","m","a">>
MiGrupo == <<"M","i"," ","G","r","u","p","o">>
Ellipsis == <<".", ".", ".">>

\* ----------------------------------------------------------- text helpers
\* the positions of s holding a character that is not whitespace
Inked(s) == {i \in 1..Len(s) : s[i] \notin WS}
First(S) == CHOOSE i \in S : \A j \in S : i <= j
Last(S) == CHOOSE i \in S : \A j \in S : j <= i

TrimStart(s) == IF Inked(s) = {} THEN <<>> ELSE SubSeq(s, First(Inked(s)), Len(s))

TrimEnd(s) == IF Inked(s) = {} THEN <<>> ELSE SubSeq(s, 1, Last(Inked(s)))

Trim(s) == TrimEnd(TrimStart(s))

\* mutant: s.replace(/\s\s/g, " "), every pair of whitespace characters
\* becomes one space and a whitespace character left alone stays
CollapseWs_Pairs(s) ==
    LET RunStart(i) == Last({j \in 1..i : s[j] \in WS /\ (j = 1 \/ s[j - 1] \notin WS)})
        marked == [i \in 1..Len(s) |->
                     IF s[i] \notin WS THEN [c |-> s[i], keep |-> TRUE]
                     ELSE IF (i - RunStart(i)) % 2 = 1 THEN [c |-> " ", keep |-> FALSE]
                     ELSE IF i < Len(s) /\ s[i + 1] \in WS THEN [c |-> " ", keep |-> TRUE]
                     ELSE [c |-> s[i], keep |-> TRUE]]
        kept == SelectSeq(marked, LAMBDA m : m.keep)
    IN  [i \in 1..Len(kept) |-> kept[i].c]

\* s.replace(/\s+/g, " "): every maximal run of whitespace becomes one space
CollapseWs(s) ==
    LET marked == [i \in 1..Len(s) |->
                     [ c |-> IF s[i] \in WS THEN " " ELSE s[i],
                       keep |-> s[i] \notin WS \/ i = 1 \/ s[i - 1] \notin WS ]]
        kept == SelectSeq(marked, LAMBDA m : m.keep)
    IN  [i \in 1..Len(kept) |-> kept[i].c]

\* mutant: the length is not limited
sanitizeAlarmLabel_NoLimit(label) ==
    IF ~Truthy(label) THEN DEFAULT
    ELSE LET collapsed == CollapseWs(Trim(label.chars))
         IN  IF collapsed # <<>> THEN collapsed ELSE DEFAULT

\* functions/index.js sanitizeAlarmLabel; the result is always a string
sanitizeAlarmLabel(label) ==
    IF ~Truthy(label) THEN DEFAULT
    ELSE LET collapsed == CollapseWs(Trim(label.chars))
             sanitized == IF Len(collapsed) > MAX_LENGTH
                          THEN SubSeq(collapsed, 1, MAX_LENGTH - 3) \o Ellipsis
                          ELSE collapsed
         IN  IF sanitized # <<>> THEN sanitized ELSE DEFAULT

\* utils/sanitizeAlarmLabel.ts
MAX_LABEL_LENGTH == 100
DEFAULT_LABEL == <<"N", "u", "e", "v", "a", " ", "A", "l", "a", "r", "m", "a">>

\* mutant: the final check for an empty result is missing
clientSanitizeAlarmLabel_NoDefault(label) ==
    IF ~Truthy(label) THEN DEFAULT_LABEL
    ELSE LET collapsed == CollapseWs(Trim(label.chars))
         IN  IF Len(collapsed) > MAX_LABEL_LENGTH
                THEN SubSeq(collapsed, 1, MAX_LABEL_LENGTH - 3) \o Ellipsis
                ELSE collapsed

\* utils/sanitizeAlarmLabel.ts sanitizeAlarmLabel
clientSanitizeAlarmLabel(label) ==
    IF ~Truthy(label) THEN DEFAULT_LABEL
    ELSE LET collapsed == CollapseWs(Trim(label.chars))
             sanitized == IF Len(collapsed) > MAX_LABEL_LENGTH
                          THEN SubSeq(collapsed, 1, MAX_LABEL_LENGTH - 3) \o Ellipsis
                          ELSE collapsed
         IN  IF sanitized = <<>> \/ Len(sanitized) = 0 THEN DEFAULT_LABEL ELSE sanitized

\* mutant: the ids are spread without the Set
Dedup_Keep(xs) == xs

\* [...new Set(xs)]: first occurrences, in order
RECURSIVE Dedup(_)
Dedup(xs) ==
    IF xs = <<>> THEN <<>>
    ELSE LET rest == Dedup(SubSeq(xs, 1, Len(xs) - 1))
             last == xs[Len(xs)]
         IN  IF \E i \in 1..Len(rest) : rest[i] = last THEN rest
             ELSE Append(rest, last)

IsUserId(x) == x # ""

\* The members arrays drawn: arrayUnion/arrayRemove keep every id at most
\* once, and the ids are listed in the order the users joined, here the
\* order of their ids.
Rank(u) == CASE u = "A" -> 1 [] u = "B" -> 2 [] OTHER -> 3
InJoinOrder(s) == \A i, j \in 1..Len(s) : i < j => Rank(s[i]) < Rank(s[j])
MemberArrays(S, n) == {s \in UNION {[1..k -> S] : k \in 0..n} : InJoinOrder(s)}


\* ------------------------------------------------- date and time rendering
\* d.toLocaleDateString("es-ES", ...) and d.toLocaleTimeString("es-ES", ...)
\* of the instants the model draws for datetimeUTC
FormatDate(dt) == IF dt = "2025-01-01T08:00:00Z" THEN "1 de enero de 2025" ELSE "Invalid Date"
FormatTime(dt) == IF dt = "2025-01-01T08:00:00Z" THEN "08:00" ELSE "Invalid Date"

dateStrOf(alarmData) ==
    IF alarmData.datetimeUTC # "" THEN FormatDate(alarmData.datetimeUTC)
    ELSE alarmData.date
timeStrOf(alarmData) ==
    IF alarmData.datetimeUTC # "" THEN FormatTime(alarmData.datetimeUTC)
    ELSE alarmData.time

\* `${dateStr} a las ${timeStr}`
alarmBody(alarmData) == JsStr(<<dateStrOf(alarmData), " a las ", timeStrOf(alarmData)>>)

\* ------------------------------------------- sendHighPriorityNotification
StrField(data, k, dflt) ==
    IF k \in DOMAIN data /\ data[k] # "" THEN data[k] ELSE dflt

\* the message object of sendHighPriorityNotification (lines 36-75)
BuildMessage(fcmToken, title, body, data) ==
    LET safeTitle == IF title.kind = "string" /\ Len(Trim(title.chars)) > 0
                     THEN Trim(title.chars) ELSE DEFAULT
        \* String(body || ""): a non-zero number is rendered, null is ""
        safeBody == IF body.kind = "string" THEN body.chars
                    ELSE IF body.kind = "number" /\ body.chars # <<"0">>
                         THEN body.chars ELSE <<>>
    IN  [ notification |-> [title |-> JsStr(safeTitle), body |-> JsStr(safeBody)],
          data |-> [ type |-> StrField(data, "type", "alarm"),
                     groupId |-> StrField(data, "groupId", ""),
                     title |-> JsStr(safeTitle),
                     label |-> IF "label" \in DOMAIN data /\ Truthy(data.label)
                               THEN data.label ELSE JsStr(safeTitle) ] @@ data,
          token |-> fcmToken,
          android |-> [ priority |-> "high", ttl |-> 0,
                        notification |-> [ title |-> title, body |-> body,
                                           channelId |-> StrField(data, "channelId", "alarms"),
                                           sound |-> "default" ] ] ]

\* One invocation of sendHighPriorityNotification up to its first await:
\* nothing is sent for a falsy token, otherwise messaging.send(message) is
\* called and the invocation is suspended on it.
sendHighPriorityNotification(fcmToken, title, body, data) ==
    [ st |-> IF fcmToken = NoToken THEN "skipped" ELSE "inflight",
      msg |-> BuildMessage(fcmToken, title, body, data) ]

\* --------------------------------------------------------------- the state
VARIABLES
    users,      \* Firestore users/{uid}: [exists, fcmToken]
    ev,         \* the created document the running handler was triggered by
    pc,         \* position of the running handler
    loc,        \* the handler's local constants
    calls,      \* the invocations of sendHighPriorityNotification, in call order
    outcome,    \* how the handler's promise settled: "ok", or the rejection it
                \* ended with ("get_rejected", "update_rejected")
    nEvents,    \* documents created so far
    nSaves,     \* client token writes so far
    tokenHist   \* history: every token users/{uid}.fcmToken has held

\* the client's connection monitor (src/utils/connectionMonitor.ts)
VARIABLES
    online,      \* navigator.onLine
    timeoutId,   \* the module variable timeoutId: 0 for null, else a timer's id
    timers,      \* the pending setTimeout timers: [id, left], left in seconds
    nextTimer,   \* the id setTimeout returns next
    monitors,    \* calls of startConnectionMonitor so far: each registered an
                 \* online and an offline listener
    dispatch,    \* the network event being dispatched: [event, todo], todo the
                 \* listeners still to be called
    mphase,      \* "boot": the modules are being evaluated; "run": the page is
                 \* up; "ended": window.location.reload() has ended the page
    resets,      \* the invocations of reconnectFirestoreAfterOffline: [at, steps]
    nOffline,    \* offline events so far
    offlineFor,  \* history: seconds since the network was last seen going (or,
                 \* at start, being) offline, 0 while online
    resetsSince  \* history: resets triggered since then

monitorVars == <<online, timeoutId, timers, nextTimer, monitors, dispatch, mphase,
                 resets, nOffline, offlineFor, resetsSince>>

\* the background agent (public/firebase-messaging-sw.js)
VARIABLES
    swPayload,   \* the push message onBackgroundMessage was called with
    shows,       \* the calls of self.registration.showNotification, in order:
                 \* [title, options, st]
    swTask       \* the promise onBackgroundMessage returned: "none" before the
                 \* message, then "pending", "resolved" or "rejected"

swVars == <<swPayload, shows, swTask>>

\* the page's foreground message handler (services/notificationService.ts)
VARIABLES
    fgPayload,   \* the push message the onMessage callback was called with
    fgShows,     \* the calls of reg.showNotification, in order: [title, options, st]
    fgPc,        \* "idle" before the message, "ready" while
                 \* navigator.serviceWorker.ready is awaited, then "done"
    fgReg        \* what the callback found: "unsupported" (no serviceWorker in
                 \* navigator), or the state of reg.active ("none" for null)

fgVars == <<fgPayload, fgShows, fgPc, fgReg>>

\* one raw label and what each sanitizer made of it
VARIABLES
    raw,         \* the value handed to the sanitizers
    srvOut,      \* the result of sanitizeAlarmLabel of functions/index.js
    cliOut,      \* the result of sanitizeAlarmLabel of utils/sanitizeAlarmLabel.ts
    swOut,       \* the title the background agent makes of it
    fedFrom      \* when raw is itself a sanitizer's result: [by, out]

sanVars == <<raw, srvOut, cliOut, swOut, fedFrom>>

\* one call of withRetryOnIndexedDBClosed (unnamed/part_001)
VARIABLES
    rtPc,        \* "idle", "calling" (fn() is awaited), "waiting" (the delay is
                 \* awaited), "returned" or "thrown"
    rtMax,       \* the local maxRetries
    rtDelay,     \* the local delayMs
    rtAttempt,   \* the loop variable attempt
    rtLastError, \* the local lastError
    rtStarted,   \* invocations of fn started so far
    rtLog,       \* how each invocation of fn settled, in order: [ok, val]
    rtWaits,     \* the delays awaited so far, in order
    rtResult     \* what the call returned or threw

retryVars == <<rtPc, rtMax, rtDelay, rtAttempt, rtLastError, rtStarted, rtLog, rtWaits,
               rtResult>>

\* the background agent's life cycle and control messages
\* (public/firebase-messaging-sw.js, install, activate and message handlers)
VARIABLES
    swState,         \* the worker's state: "installing", "waiting", "activating",
                     \* "activated" or "redundant"
    installHandled,  \* the install handler has run
    skipWaitingFlag, \* the worker's skip-waiting flag
    skipCalls,       \* the calls of self.skipWaiting(), by caller
    oldActive,       \* an older worker is the registration's active worker
    windows,         \* the open UI instances in scope and who controls each:
                     \* "none", "old" or "this"
    activateSt,      \* the activate handler's promise chain: "none", "claiming",
                     \* "updating" or "settled"
    extended,        \* the activate event was given that chain by waitUntil
    cachedAlarms,    \* the module variable cachedAlarms
    acks,            \* the KEEP_ALIVE_ACK messages posted
    msgs,            \* the control messages received, in order
    claimed          \* history: the UI instances clients.claim() took over

lifeVars == <<swState, installHandled, skipWaitingFlag, skipCalls, oldActive, windows,
              activateSt, extended, cachedAlarms, acks, msgs, claimed>>

\* the page's keep-alive pinger (firebaseConfig.ts)
VARIABLES
    pgSent,       \* KEEP_ALIVE messages the page has posted to its controller
    pgQueue,      \* of these, the ones posted to this worker and not yet handled
    pgAcked,      \* KEEP_ALIVE_ACK messages port1.onmessage has received
    pgRegisters   \* calls of navigator.serviceWorker.register by
                  \* ensureServiceWorkerAlive

pingVars == <<pgSent, pgQueue, pgAcked, pgRegisters>>

\* a click on a notification (firebase-messaging-sw.js, notificationclick) and
\* the page's navigation listener (unnamed/part_003)
VARIABLES
    ckData,       \* event.notification.data; Undefined-like NoData map if none
    ckClients,    \* the window clients clients.matchAll resolves with
    ckPc,         \* "idle", "matching", "focusing", "opening" or "done"
    ckClosed,     \* event.notification.close() was called
    ckFocused,    \* the clients focus() was called on, in order
    ckOpened,     \* the urls clients.openWindow was called with, in order
    ckPosted,     \* the messages posted to a client, in order
    uiGroups,     \* the page's myGroups, by id
    uiVentana,    \* the page's ventanaGroup, by id; "" for null (personal view)
    uiRead        \* posted messages the page's listener has handled

clickVars == <<ckData, ckClients, ckPc, ckClosed, ckFocused, ckOpened, ckPosted,
               uiGroups, uiVentana, uiRead>>

\* the page's rejected-request check (unnamed/part_003) on top of
\* getGroupMembers (unnamed/part_002)
VARIABLES
    mUid,          \* user.uid
    mProfileGroup, \* profile.groupId; "" for null
    mPc,           \* "idle", "reading" (getGroupMembers is awaited), "clearing"
                   \* (clearMyGroup is awaited) or "done"
    mMembers,      \* what getGroupMembers resolved with
    mCleared       \* clearMyGroup was called

memberVars == <<mUid, mProfileGroup, mPc, mMembers, mCleared>>

clientVars == <<monitorVars, swVars, fgVars, sanVars, retryVars, lifeVars, pingVars,
                clickVars, memberVars>>
serverVars == <<users, ev, pc, loc, calls, outcome, nEvents, nSaves, tokenHist>>
lateVars == <<pingVars, clickVars, memberVars>>
nonMonitorVars == <<serverVars, swVars, fgVars, sanVars, retryVars, lifeVars, lateVars>>
nonSwVars == <<serverVars, monitorVars, fgVars, sanVars, retryVars, lifeVars, lateVars>>
nonFgVars == <<serverVars, monitorVars, swVars, sanVars, retryVars, lifeVars, lateVars>>
nonSanVars == <<serverVars, monitorVars, swVars, fgVars, retryVars, lifeVars, lateVars>>
nonRetryVars == <<serverVars, monitorVars, swVars, fgVars, sanVars, lifeVars, lateVars>>
nonLifePingVars == <<serverVars, monitorVars, swVars, fgVars, sanVars, retryVars, clickVars,
                     memberVars>>
nonLifeVars == <<nonLifePingVars, pingVars>>
nonClickVars == <<serverVars, monitorVars, swVars, fgVars, sanVars, retryVars, lifeVars,
                  pingVars, memberVars>>
nonMemberVars == <<serverVars, monitorVars, swVars, fgVars, sanVars, lifeVars, pingVars,
                   clickVars>>

vars == <<serverVars, clientVars>>

\* the background agent before a push message arrives
NoPayload == [notification |-> [present |-> FALSE, title |-> JsNull, body |-> JsNull],
              data |-> [k \in {} |-> ""]]
SwIdle ==
    /\ swPayload = NoPayload
    /\ shows = <<>>
    /\ swTask = "none"

\* the foreground handler before a push message arrives
FgIdle ==
    /\ fgPayload = NoPayload
    /\ fgShows = <<>>
    /\ fgPc = "idle"
    /\ fgReg = "none"

\* no label handed to the sanitizers
NotRun == [kind |-> "none", chars |-> <<>>]
SanIdle ==
    /\ raw = JsNull
    /\ srvOut = NotRun
    /\ cliOut = NotRun
    /\ swOut = NotRun
    /\ fedFrom = NotRun

\* undefined, as a thrown or returned value
Undefined == [kind |-> "undefined", msg |-> <<>>]
\* withRetryOnIndexedDBClosed not called
RetryIdle ==
    /\ rtPc = "idle"
    /\ rtMax = 0
    /\ rtDelay = 0
    /\ rtAttempt = 0
    /\ rtLastError = Undefined
    /\ rtStarted = 0
    /\ rtLog = <<>>
    /\ rtWaits = <<>>
    /\ rtResult = Undefined

\* the agent installed and activated, no UI instance open, no control message
LifeIdle ==
    /\ swState = "activated"
    /\ installHandled = TRUE
    /\ skipWaitingFlag = TRUE
    /\ skipCalls = <<"install">>
    /\ oldActive = FALSE
    /\ windows = [w \in {} |-> "none"]
    /\ activateSt = "settled"
    /\ extended = TRUE
    /\ cachedAlarms = <<>>
    /\ acks = <<>>
    /\ msgs = <<>>
    /\ claimed = {}

\* the components that play no part in a specification, at rest
\* the pinger before its first ping
PingIdle ==
    /\ pgSent = 0
    /\ pgQueue = 0
    /\ pgAcked = 0
    /\ pgRegisters = 0

\* no notification clicked, the page on the personal view
ClickIdle ==
    /\ ckData = [k \in {} |-> ""]
    /\ ckClients = <<>>
    /\ ckPc = "idle"
    /\ ckClosed = FALSE
    /\ ckFocused = <<>>
    /\ ckOpened = <<>>
    /\ ckPosted = <<>>
    /\ uiGroups = {}
    /\ uiVentana = ""
    /\ uiRead = 0

\* the rejected-request check not started
MemberIdle ==
    /\ mUid = "u1"
    /\ mProfileGroup = ""
    /\ mPc = "idle"
    /\ mMembers = Undefined
    /\ mCleared = FALSE

LateIdle == PingIdle /\ ClickIdle /\ MemberIdle

RestIdle == FgIdle /\ SanIdle /\ RetryIdle /\ LifeIdle /\ LateIdle

\* the monitor before the page's modules are evaluated, the network up
MonitorIdle ==
    /\ online = TRUE
    /\ timeoutId = 0
    /\ timers = {}
    /\ nextTimer = 1
    /\ monitors = 0
    /\ dispatch = [event |-> "none", todo |-> 0]
    /\ mphase = "boot"
    /\ resets = <<>>
    /\ nOffline = 0
    /\ offlineFor = 0
    /\ resetsSince = 0

UserDocs == {[exists |-> FALSE, fcmToken |-> NoToken]}
            \cup {[exists |-> TRUE, fcmToken |-> t] : t \in Tokens \cup {NoToken}}

GroupNames == {<<"F", "a", "m">>}
\* what groupRef.get() may resolve to: groups/G1 as [exists, owner, members, name]
GroupDocs ==
    {[exists |-> FALSE, owner |-> "", members |-> <<>>, name |-> <<>>]}
    \cup {[exists |-> TRUE, owner |-> o, members |-> m, name |-> n] :
            o \in Users \cup {""}, m \in MemberArrays(Users, MaxMembers), n \in GroupNames}

NoEvent ==
    [ kind |-> "none", snapExists |-> FALSE, active |-> FALSE, label |-> JsNull,
      datetimeUTC |-> "", date |-> "", time |-> "", uid |-> "", type |-> "",
      displayName |-> "", message |-> "", alarmId |-> "" ]

NoLoc ==
    [ ownerId |-> "", members |-> <<>>, groupName |-> <<>>, allUserIds |-> <<>>,
      snaps |-> <<>>, tokens |-> <<>> ]

Init ==
    /\ users \in [Users -> UserDocs]
    /\ ev = NoEvent
    /\ pc = "idle"
    /\ loc = NoLoc
    /\ calls = <<>>
    /\ outcome = "none"
    /\ nEvents = 0
    /\ nSaves = 0
    /\ tokenHist = [u \in Users |-> {users[u].fcmToken} \ {NoToken}]
    /\ MonitorIdle
    /\ SwIdle
    /\ RestIdle

\* a handler may be dispatched when none is running
Free == pc \in {"idle", "done"}

Begin(e, nextPc) ==
    /\ Free
    /\ nEvents < MaxEvents
    /\ nEvents' = nEvents + 1
    /\ ev' = e
    /\ loc' = NoLoc
    /\ calls' = <<>>
    /\ pc' = nextPc
    /\ outcome' = IF nextPc = "done" THEN "ok" ELSE "running"
    /\ UNCHANGED <<users, nSaves, tokenHist, clientVars>>

Finish(result) ==
    /\ pc' = "done"
    /\ outcome' = result

\* snap of users/{uid} as ref.get() resolves it
SnapOf(uid) == [read |-> TRUE, id |-> uid, exists |-> users[uid].exists,
                fcmToken |-> users[uid].fcmToken]
Unread(uid) == [read |-> FALSE, id |-> uid, exists |-> FALSE, fcmToken |-> NoToken]

\* ------------------------------------------------------ created documents
\* onDocumentCreated hands the handler the snapshot of the created document
JoinEvents ==
    {[NoEvent EXCEPT !.kind = "join", !.snapExists = TRUE, !.uid = u, !.displayName = d] :
        u \in Users, d \in {"", "Ana"}}

\* a label one character longer than sanitizeAlarmLabel keeps whole
LongLabel == [i \in 1..(MAX_LENGTH + 1) |-> "x"]

\* an alarm written by the current client (datetimeUTC), a legacy one
\* (date and time, no label) and one with an over-long label
AlarmDocs ==
    { [NoEvent EXCEPT !.label = JsStr(<<" ", "G", "y", "m", " ", " ", "7", " ">>),
                      !.datetimeUTC = "2025-01-01T08:00:00Z"],
      [NoEvent EXCEPT !.label = JsNull, !.date = "2025-01-01", !.time = "08:00"],
      [NoEvent EXCEPT !.label = JsStr(LongLabel),
                      !.datetimeUTC = "2025-01-01T08:00:00Z"] }

AlarmFields ==
    {[d EXCEPT !.snapExists = TRUE, !.active = a, !.alarmId = "a1"] :
        d \in AlarmDocs, a \in BOOLEAN}

PersonalAlarmEvents ==
    {[e EXCEPT !.kind = "personal", !.uid = u] : e \in AlarmFields, u \in Users}

GroupAlarmEvents == {[e EXCEPT !.kind = "group"] : e \in AlarmFields}

ActivityEvents ==
    {[NoEvent EXCEPT !.kind = "left", !.snapExists = TRUE, !.type = t, !.uid = u,
                     !.displayName = dm[1], !.message = dm[2]] :
        t \in {"member_left", "member_joined"}, u \in Users,
        dm \in {<<"", "">>, <<"Ana", "Ana se fue">>}}

\* groupSnap.data()?.name || "Mi Grupo"
groupNameOf(g) == IF g.name # <<>> THEN g.name ELSE MiGrupo

Settled(c) == c.st \in {"skipped", "delivered", "swallowed", "uncleared", "cleared", "rejected"}
Rejected(c) == c.st = "rejected"
AllSettled == \A i \in 1..Len(calls) : Settled(calls[i])

\* `await sendHighPriorityNotification(...)` of the three single-recipient
\* handlers: the handler resumes when the call settles and fails if it rejected
AwaitSend(kind) ==
    /\ pc = "sending"
    /\ ev.kind = kind
    /\ AllSettled
    /\ Finish(IF \E i \in 1..Len(calls) : Rejected(calls[i]) THEN "update_rejected" ELSE "ok")
    /\ UNCHANGED <<users, ev, loc, calls, nEvents, nSaves, tokenHist, clientVars>>

\* ------------------------------------------------ notifyAdminOnJoinRequest
JoinTitle ==
    <<"N","u","e","v","a"," ","s","o","l","i","c","i","t","u","d"," ","d","e"," ",
      "u","n","i","ó","n">>

JoinRequest_Created ==
    \E e \in JoinEvents : Begin(e, IF ~e.snapExists THEN "done" ELSE "readGroup")

JoinRequest_GroupRead ==
    /\ pc = "readGroup"
    /\ ev.kind = "join"
    /\ \/ /\ Finish("get_rejected")                \* groupRef.get() rejects
          /\ UNCHANGED loc
       \/ \E groupSnap \in GroupDocs :
             \/ /\ ~groupSnap.exists \/ groupSnap.owner = ""
                /\ Finish("ok")
                /\ UNCHANGED loc
             \/ /\ groupSnap.exists /\ groupSnap.owner # ""
                /\ loc' = [loc EXCEPT !.ownerId = groupSnap.owner,
                                       !.groupName = groupNameOf(groupSnap)]
                /\ pc' = "readUser"
                /\ UNCHANGED outcome
    /\ UNCHANGED <<users, ev, calls, nEvents, nSaves, tokenHist, clientVars>>

\* mutant: data.userId carries the requester's id
JoinRequest_Send_RequesterId(fcmToken) ==
    LET displayName == IF ev.displayName # "" THEN ev.displayName ELSE "Alguien"
    IN  sendHighPriorityNotification(
            fcmToken,
            JsStr(JoinTitle),
            JsStr(<<displayName, " quiere unirse a \"">> \o loc.groupName
                  \o <<"\". Abre la app para aprobar o rechazar.">>),
            [ type |-> "join_request", groupId |-> GroupId,
              groupName |-> JsStr(loc.groupName), userId |-> ev.uid,
              requesterId |-> ev.uid, displayName |-> displayName,
              channelId |-> "join_requests" ])

JoinRequest_Send(fcmToken) ==
    LET displayName == IF ev.displayName # "" THEN ev.displayName ELSE "Alguien"
    IN  sendHighPriorityNotification(
            fcmToken,
            JsStr(JoinTitle),
            JsStr(<<displayName, " quiere unirse a \"">> \o loc.groupName
                  \o <<"\". Abre la app para aprobar o rechazar.">>),
            [ type |-> "join_request", groupId |-> GroupId,
              groupName |-> JsStr(loc.groupName), userId |-> loc.ownerId,
              requesterId |-> ev.uid, displayName |-> displayName,
              channelId |-> "join_requests" ])

\* mutant: the send is not guarded by `if (!fcmToken)`
JoinRequest_UserRead_NoTokenCheck ==
    /\ pc = "readUser"
    /\ ev.kind = "join"
    /\ LET userSnap == SnapOf(loc.ownerId)
       IN  \/ /\ Finish("get_rejected")
              /\ UNCHANGED <<loc, calls>>
           \/ /\ ~userSnap.exists
              /\ loc' = [loc EXCEPT !.snaps = <<userSnap>>]
              /\ Finish("ok")
              /\ UNCHANGED calls
           \/ /\ userSnap.exists
              /\ loc' = [loc EXCEPT !.snaps = <<userSnap>>]
              /\ calls' = <<JoinRequest_Send(userSnap.fcmToken)>>
              /\ pc' = "sending"
              /\ UNCHANGED outcome
    /\ UNCHANGED <<users, ev, nEvents, nSaves, tokenHist, clientVars>>

JoinRequest_UserRead ==
    /\ pc = "readUser"
    /\ ev.kind = "join"
    /\ LET userSnap == SnapOf(loc.ownerId)
       IN  \/ /\ Finish("get_rejected")            \* userRef.get() rejects
              /\ UNCHANGED <<loc, calls>>
           \/ /\ ~userSnap.exists \/ userSnap.fcmToken = NoToken
              /\ loc' = [loc EXCEPT !.snaps = <<userSnap>>]
              /\ Finish("ok")
              /\ UNCHANGED calls
           \/ /\ userSnap.exists /\ userSnap.fcmToken # NoToken
              /\ loc' = [loc EXCEPT !.snaps = <<userSnap>>]
              /\ calls' = <<JoinRequest_Send(userSnap.fcmToken)>>
              /\ pc' = "sending"
              /\ UNCHANGED outcome
    /\ UNCHANGED <<users, ev, nEvents, nSaves, tokenHist, clientVars>>

JoinRequest_Return == AwaitSend("join")

\* --------------------------------------------------- notifyOnPersonalAlarm
PersonalAlarm_Created ==
    \E e \in PersonalAlarmEvents :
        Begin(e, IF ~e.snapExists \/ ~e.active THEN "done" ELSE "readUser")

\* mutant: the data map is passed without its type
PersonalAlarm_Send_NoType(fcmToken) ==
    LET label == sanitizeAlarmLabel(ev.label)
    IN  sendHighPriorityNotification(
            fcmToken,
            JsStr(label),
            alarmBody(ev),
            [ groupId |-> "", alarmId |-> ev.alarmId,
              userId |-> ev.uid,
              label |-> JsStr(IF label # <<>> THEN label ELSE DEFAULT),
              datetimeUTC |-> ev.datetimeUTC, date |-> dateStrOf(ev),
              time |-> timeStrOf(ev), channelId |-> "personal_alarms" ])

PersonalAlarm_Send(fcmToken) ==
    LET label == sanitizeAlarmLabel(ev.label)
    IN  sendHighPriorityNotification(
            fcmToken,
            JsStr(label),
            alarmBody(ev),
            [ type |-> "personal_alarm", groupId |-> "", alarmId |-> ev.alarmId,
              userId |-> ev.uid,
              label |-> JsStr(IF label # <<>> THEN label ELSE DEFAULT),
              datetimeUTC |-> ev.datetimeUTC, date |-> dateStrOf(ev),
              time |-> timeStrOf(ev), channelId |-> "personal_alarms" ])

PersonalAlarm_UserRead ==
    /\ pc = "readUser"
    /\ ev.kind = "personal"
    /\ LET userSnap == SnapOf(ev.uid)
       IN  \/ /\ Finish("get_rejected")            \* userRef.get() rejects
              /\ UNCHANGED <<loc, calls>>
           \/ /\ ~userSnap.exists \/ userSnap.fcmToken = NoToken
              /\ loc' = [loc EXCEPT !.snaps = <<userSnap>>]
              /\ Finish("ok")
              /\ UNCHANGED calls
           \/ /\ userSnap.exists /\ userSnap.fcmToken # NoToken
              /\ loc' = [loc EXCEPT !.snaps = <<userSnap>>]
              /\ calls' = <<PersonalAlarm_Send(userSnap.fcmToken)>>
              /\ pc' = "sending"
              /\ UNCHANGED outcome
    /\ UNCHANGED <<users, ev, nEvents, nSaves, tokenHist, clientVars>>

PersonalAlarm_Return == AwaitSend("personal")

\* ------------------------------------------------------------ getFCMTokens
\* mutant: the loop pushes every existing user, token or not
getFCMTokens_NoTokenCheck(snaps) ==
    LET kept == SelectSeq(snaps, LAMBDA snap : snap.exists)
    IN  [i \in 1..Len(kept) |-> [userId |-> kept[i].id, token |-> kept[i].fcmToken]]

\* the loop of getFCMTokens over the resolved snapshots
getFCMTokens(snaps) ==
    LET kept == SelectSeq(snaps, LAMBDA snap : snap.exists /\ snap.fcmToken # NoToken)
    IN  [i \in 1..Len(kept) |-> [userId |-> kept[i].id, token |-> kept[i].fcmToken]]

\* Promise.all(userRefs.map((ref) => ref.get())): the reads are issued
\* together and resolve one by one in any order; the first rejection rejects
\* the whole Promise.all, which nothing catches
getFCMTokens_Get(i) ==
    /\ pc = "resolve"
    /\ ~loc.snaps[i].read
    /\ \/ /\ loc' = [loc EXCEPT !.snaps[i] = SnapOf(loc.allUserIds[i])]
          /\ UNCHANGED <<pc, outcome>>
       \/ /\ Finish("get_rejected")
          /\ UNCHANGED loc
    /\ UNCHANGED <<users, ev, calls, nEvents, nSaves, tokenHist, clientVars>>

\* ------------------------------------------------------ notifyOnGroupAlarm
GroupAlarm_Created ==
    \E e \in GroupAlarmEvents :
        Begin(e, IF ~e.snapExists \/ ~e.active THEN "done" ELSE "readGroup")

\* [...new Set([owner, ...members])].filter(Boolean)
allUserIdsOf(g) == SelectSeq(Dedup(<<g.owner>> \o g.members), IsUserId)

GroupAlarm_GroupRead ==
    /\ pc = "readGroup"
    /\ ev.kind = "group"
    /\ \/ /\ Finish("get_rejected")                \* groupRef.get() rejects
          /\ UNCHANGED loc
       \/ \E groupSnap \in GroupDocs :
             LET ids == allUserIdsOf(groupSnap)
                 read == [loc EXCEPT !.ownerId = groupSnap.owner,
                                     !.members = groupSnap.members,
                                     !.groupName = groupNameOf(groupSnap),
                                     !.allUserIds = ids]
             IN  \/ /\ ~groupSnap.exists
                    /\ Finish("ok")
                    /\ UNCHANGED loc
                 \/ /\ groupSnap.exists /\ ids = <<>>
                    /\ loc' = read
                    /\ Finish("ok")
                 \/ /\ groupSnap.exists /\ ids # <<>>
                    /\ loc' = [read EXCEPT
                                  !.snaps = [i \in 1..Len(ids) |-> Unread(ids[i])]]
                    /\ pc' = "resolve"
                    /\ UNCHANGED outcome
    /\ UNCHANGED <<users, ev, calls, nEvents, nSaves, tokenHist, clientVars>>

GroupAlarm_Send(userId, token) ==
    LET label == sanitizeAlarmLabel(ev.label)
    IN  sendHighPriorityNotification(
            token,
            JsStr(label \o <<" ", "-", " ">> \o loc.groupName),
            alarmBody(ev),
            [ type |-> "group_alarm", groupId |-> GroupId,
              groupName |-> JsStr(loc.groupName), alarmId |-> ev.alarmId,
              userId |-> userId,
              label |-> JsStr(IF label # <<>> THEN label ELSE DEFAULT),
              datetimeUTC |-> ev.datetimeUTC, date |-> dateStrOf(ev),
              time |-> timeStrOf(ev), channelId |-> "group_alarms" ])

\* getFCMTokens has resolved: tokens.map(...) starts every send before the
\* handler reaches `await Promise.allSettled(promises)`
GroupAlarm_FanOut ==
    /\ pc = "resolve"
    /\ \A i \in 1..Len(loc.snaps) : loc.snaps[i].read
    /\ LET tokens == getFCMTokens(loc.snaps)
       IN  /\ loc' = [loc EXCEPT !.tokens = tokens]
           /\ calls' = [i \in 1..Len(tokens) |->
                           GroupAlarm_Send(tokens[i].userId, tokens[i].token)]
    /\ pc' = "sending"
    /\ UNCHANGED <<users, ev, outcome, nEvents, nSaves, tokenHist, clientVars>>

\* mutant: the handler returns without awaiting the sends
GroupAlarm_Return_Early ==
    /\ pc = "sending"
    /\ ev.kind = "group"
    /\ Finish("ok")
    /\ UNCHANGED <<users, ev, loc, calls, nEvents, nSaves, tokenHist, clientVars>>

\* await Promise.allSettled(promises): never rejects
GroupAlarm_Return ==
    /\ pc = "sending"
    /\ ev.kind = "group"
    /\ AllSettled
    /\ Finish("ok")
    /\ UNCHANGED <<users, ev, loc, calls, nEvents, nSaves, tokenHist, clientVars>>

\* ------------------------------------------------- notifyAdminOnMemberLeft
LeftTitle ==
    <<"M","i","e","m","b","r","o"," ","a","b","a","n","d","o","n","ó"," ","e","l"," ",
      "g","r","u","p","o">>

\* mutant: every activity record is notified
MemberLeft_Created_AnyType ==
    \E e \in ActivityEvents : Begin(e, IF ~e.snapExists THEN "done" ELSE "readGroup")

MemberLeft_Created ==
    \E e \in ActivityEvents :
        Begin(e, IF ~e.snapExists \/ e.type # "member_left" THEN "done" ELSE "readGroup")

MemberLeft_GroupRead ==
    /\ pc = "readGroup"
    /\ ev.kind = "left"
    /\ \/ /\ Finish("get_rejected")                \* groupRef.get() rejects
          /\ UNCHANGED loc
       \/ \E groupSnap \in GroupDocs :
             \/ /\ ~groupSnap.exists \/ groupSnap.owner = ""
                /\ Finish("ok")
                /\ UNCHANGED loc
             \/ /\ groupSnap.exists /\ groupSnap.owner # ""
                /\ loc' = [loc EXCEPT !.ownerId = groupSnap.owner,
                                       !.groupName = groupNameOf(groupSnap)]
                /\ pc' = "readUser"
                /\ UNCHANGED outcome
    /\ UNCHANGED <<users, ev, calls, nEvents, nSaves, tokenHist, clientVars>>

MemberLeft_Send(fcmToken) ==
    LET displayName == IF ev.displayName # "" THEN ev.displayName ELSE "Un usuario"
        message == IF ev.message # "" THEN <<ev.message>>
                   ELSE <<displayName, " ha abandonado el grupo ">> \o loc.groupName
                        \o <<".">>
    IN  sendHighPriorityNotification(
            fcmToken,
            JsStr(LeftTitle),
            JsStr(message),
            [ type |-> "member_left", groupId |-> GroupId,
              groupName |-> JsStr(loc.groupName), userId |-> loc.ownerId,
              leftUserId |-> ev.uid, displayName |-> displayName,
              channelId |-> "group_activity" ])

\* mutant: the token is read from the record of the member who left
MemberLeft_UserRead_LeftUser ==
    /\ pc = "readUser"
    /\ ev.kind = "left"
    /\ LET userSnap == SnapOf(ev.uid)
       IN  \/ /\ Finish("get_rejected")
              /\ UNCHANGED <<loc, calls>>
           \/ /\ ~userSnap.exists \/ userSnap.fcmToken = NoToken
              /\ loc' = [loc EXCEPT !.snaps = <<userSnap>>]
              /\ Finish("ok")
              /\ UNCHANGED calls
           \/ /\ userSnap.exists /\ userSnap.fcmToken # NoToken
              /\ loc' = [loc EXCEPT !.snaps = <<userSnap>>]
              /\ calls' = <<MemberLeft_Send(userSnap.fcmToken)>>
              /\ pc' = "sending"
              /\ UNCHANGED outcome
    /\ UNCHANGED <<users, ev, nEvents, nSaves, tokenHist, clientVars>>

MemberLeft_UserRead ==
    /\ pc = "readUser"
    /\ ev.kind = "left"
    /\ LET userSnap == SnapOf(loc.ownerId)
       IN  \/ /\ Finish("get_rejected")            \* userRef.get() rejects
              /\ UNCHANGED <<loc, calls>>
           \/ /\ ~userSnap.exists \/ userSnap.fcmToken = NoToken
              /\ loc' = [loc EXCEPT !.snaps = <<userSnap>>]
              /\ Finish("ok")
              /\ UNCHANGED calls
           \/ /\ userSnap.exists /\ userSnap.fcmToken # NoToken
              /\ loc' = [loc EXCEPT !.snaps = <<userSnap>>]
              /\ calls' = <<MemberLeft_Send(userSnap.fcmToken)>>
              /\ pc' = "sending"
              /\ UNCHANGED outcome
    /\ UNCHANGED <<users, ev, nEvents, nSaves, tokenHist, clientVars>>

MemberLeft_Return == AwaitSend("left")

\* ------------------------- sendHighPriorityNotification after its first await
SetCall(i, st) == calls' = [calls EXCEPT ![i].st = st]

\* messaging.send(message) resolves
Send_Delivered(i) ==
    /\ calls[i].st = "inflight"
    /\ SetCall(i, "delivered")
    /\ UNCHANGED <<users, ev, pc, loc, outcome, nEvents, nSaves, tokenHist, clientVars>>

\* messaging.send rejects with messaging/invalid-registration-token or
\* messaging/registration-token-not-registered: the update of users/{userId}
\* is issued when data.userId is truthy
Send_InvalidToken(i) ==
    /\ calls[i].st = "inflight"
    /\ LET userId == StrField(calls[i].msg.data, "userId", "")
       IN  SetCall(i, IF userId # "" THEN "clearing" ELSE "uncleared")
    /\ UNCHANGED <<users, ev, pc, loc, outcome, nEvents, nSaves, tokenHist, clientVars>>

\* messaging.send rejects with any other error: logged, the call resolves
Send_OtherError(i) ==
    /\ calls[i].st = "inflight"
    /\ SetCall(i, "swallowed")
    /\ UNCHANGED <<users, ev, pc, loc, outcome, nEvents, nSaves, tokenHist, clientVars>>

\* mutant: the update addresses the group owner's document
ClearTarget_Owner(i) == loc.ownerId

\* the user whose document the token-clearing update of call i addresses
ClearTarget(i) == calls[i].msg.data.userId

\* db.doc(`users/${userId}`).update({ fcmToken: null }) resolves
Clear_Done(i) ==
    /\ calls[i].st = "clearing"
    /\ ClearTarget(i) \in Users
    /\ users[ClearTarget(i)].exists
    /\ users' = [users EXCEPT ![ClearTarget(i)].fcmToken = NoToken]
    /\ SetCall(i, "cleared")
    /\ UNCHANGED <<ev, pc, loc, outcome, nEvents, nSaves, tokenHist, clientVars>>

\* the update rejects (document missing, service unavailable): nothing in
\* sendHighPriorityNotification catches it, so the call rejects
Clear_Failed(i) ==
    /\ calls[i].st = "clearing"
    /\ SetCall(i, "rejected")
    /\ UNCHANGED <<users, ev, pc, loc, outcome, nEvents, nSaves, tokenHist, clientVars>>

\* ------------------------------------------------------------- the client
\* notificationService.ts: updateDoc(doc(db, 'users', userId), { fcmToken: token })
\* The writes taken are those that change the stored token while a handler
\* runs: a write before the document is created leads to a database Init
\* draws already.
ClientSaveToken(u, t) ==
    /\ ~Free
    /\ nSaves < MaxSaves
    /\ users[u].exists
    /\ users[u].fcmToken # t
    /\ users' = [users EXCEPT ![u].fcmToken = t]
    /\ tokenHist' = [tokenHist EXCEPT ![u] = @ \cup {t}]
    /\ nSaves' = nSaves + 1
    /\ UNCHANGED <<ev, pc, loc, calls, outcome, nEvents, clientVars>>

\* ------------------------------------------------------- the specification
Next ==
    \/ JoinRequest_Created
    \/ JoinRequest_GroupRead
    \/ JoinRequest_UserRead
    \/ JoinRequest_Return
    \/ PersonalAlarm_Created
    \/ PersonalAlarm_UserRead
    \/ PersonalAlarm_Return
    \/ GroupAlarm_Created
    \/ GroupAlarm_GroupRead
    \/ \E i \in 1..Len(loc.snaps) : getFCMTokens_Get(i)
    \/ GroupAlarm_FanOut
    \/ GroupAlarm_Return
    \/ MemberLeft_Created
    \/ MemberLeft_GroupRead
    \/ MemberLeft_UserRead
    \/ MemberLeft_Return
    \/ \E i \in 1..Len(calls) : Send_Delivered(i)
    \/ \E i \in 1..Len(calls) : Send_InvalidToken(i)
    \/ \E i \in 1..Len(calls) : Send_OtherError(i)
    \/ \E i \in 1..Len(calls) : Clear_Done(i)
    \/ \E i \in 1..Len(calls) : Clear_Failed(i)
    \/ \E u \in Users, t \in Tokens : ClientSaveToken(u, t)

Spec == Init /\ [][Next]_vars

\* --------------------------------- sendHighPriorityNotification on its own
\* The values a caller may pass: sendHighPriorityNotification is called
\* once with any of them.
SenderTokens == Tokens \cup {NoToken}
SenderTitles ==
    { JsNull, JsNum(<<"7">>), JsStr(<<>>), JsStr(<<" ", "\t">>),
      JsStr(<<" ", "H", "i", " ">>), JsStr(<<"H", "i">>) }
SenderBodies == {JsNull, JsNum(<<"0">>), JsNum(<<"7">>), JsStr(<<>>), JsStr(<<"b">>)}
SenderData ==
    { [k \in {} |-> ""],
      [label |-> JsStr(<<"L">>), channelId |-> "personal_alarms"],
      [type |-> "personal_alarm", groupId |-> "", userId |-> "A"] }

SenderInit ==
    /\ users = [u \in Users |-> [exists |-> TRUE, fcmToken |-> NoToken]]
    /\ ev = NoEvent
    /\ pc = "idle"
    /\ loc = NoLoc
    /\ calls = <<>>
    /\ outcome = "none"
    /\ nEvents = 0
    /\ nSaves = 0
    /\ tokenHist = [u \in Users |-> {}]
    /\ MonitorIdle
    /\ SwIdle
    /\ RestIdle

Sender_Call ==
    /\ calls = <<>>
    /\ \E fcmToken \in SenderTokens, title \in SenderTitles,
          body \in SenderBodies, data \in SenderData :
            calls' = <<sendHighPriorityNotification(fcmToken, title, body, data)>>
    /\ UNCHANGED <<users, ev, pc, loc, outcome, nEvents, nSaves, tokenHist, clientVars>>

SenderNext == Sender_Call

SenderSpec == SenderInit /\ [][SenderNext]_vars

\* ------------------------------------------------- the connection monitor
\* Time is counted in seconds: a timer set for OFFLINE_THRESHOLD_MS fires
\* when ThresholdTicks seconds have passed.
ThresholdTicks == OFFLINE_THRESHOLD_MS \div 1000

\* the module state the two helpers work on
Cur == [timeoutId |-> timeoutId, timers |-> timers, nextTimer |-> nextTimer]
SetModule(m) ==
    /\ timeoutId' = m.timeoutId
    /\ timers' = m.timers
    /\ nextTimer' = m.nextTimer

\* mutant: timeoutId is forgotten without clearTimeout
clearOfflineTimer_NoClearTimeout(m) ==
    IF m.timeoutId # 0 THEN [m EXCEPT !.timeoutId = 0] ELSE m

clearOfflineTimer(m) ==
    IF m.timeoutId # 0
    THEN [m EXCEPT !.timers = {t \in @ : t.id # m.timeoutId}, !.timeoutId = 0]
    ELSE m

\* mutant: the id setTimeout returns is not kept
scheduleReconnect_Unrecorded(m) ==
    IF m.timeoutId # 0 THEN m
    ELSE [ timeoutId |-> 0,
           timers |-> m.timers \cup {[id |-> m.nextTimer, left |-> ThresholdTicks]},
           nextTimer |-> m.nextTimer + 1 ]

\* mutant: no `if (timeoutId !== null) return`
scheduleReconnect_NoGuard(m) ==
    [ timeoutId |-> m.nextTimer,
      timers |-> m.timers \cup {[id |-> m.nextTimer, left |-> ThresholdTicks]},
      nextTimer |-> m.nextTimer + 1 ]

\* setTimeout(callback, OFFLINE_THRESHOLD_MS) unless a timer is outstanding
scheduleReconnect(m) ==
    IF m.timeoutId # 0 THEN m
    ELSE [ timeoutId |-> m.nextTimer,
           timers |-> m.timers \cup {[id |-> m.nextTimer, left |-> ThresholdTicks]},
           nextTimer |-> m.nextTimer + 1 ]

\* The page starts with the network up or down. (A page without window or
\* navigator registers nothing and is left out.)
MonitorInit ==
    /\ users = [u \in Users |-> [exists |-> TRUE, fcmToken |-> NoToken]]
    /\ ev = NoEvent
    /\ pc = "idle"
    /\ loc = NoLoc
    /\ calls = <<>>
    /\ outcome = "none"
    /\ nEvents = 0
    /\ nSaves = 0
    /\ tokenHist = [u \in Users |-> {}]
    /\ online \in BOOLEAN
    /\ timeoutId = 0
    /\ timers = {}
    /\ nextTimer = 1
    /\ monitors = 0
    /\ dispatch = [event |-> "none", todo |-> 0]
    /\ mphase = "boot"
    /\ resets = <<>>
    /\ nOffline = 0
    /\ offlineFor = 0
    /\ resetsSince = 0
    /\ SwIdle
    /\ RestIdle

\* mutant: navigator.onLine is not looked at when the monitor starts
Monitor_Start_NoOnLineCheck ==
    /\ mphase = "boot"
    /\ monitors < MaxStarts
    /\ monitors' = monitors + 1
    /\ UNCHANGED <<timeoutId, timers, nextTimer>>
    /\ UNCHANGED <<online, dispatch, mphase, resets, nOffline, offlineFor, resetsSince,
                   nonMonitorVars>>

\* startConnectionMonitor(), called while the page's modules are evaluated
Monitor_Start ==
    /\ mphase = "boot"
    /\ monitors < MaxStarts
    /\ monitors' = monitors + 1
    /\ SetModule(IF ~online THEN scheduleReconnect(Cur) ELSE Cur)
    /\ UNCHANGED <<online, dispatch, mphase, resets, nOffline, offlineFor, resetsSince,
                   nonMonitorVars>>

\* the modules are evaluated: from now on events and timers are served
Monitor_Up ==
    /\ mphase = "boot"
    /\ monitors >= 1
    /\ mphase' = "run"
    /\ UNCHANGED <<online, timeoutId, timers, nextTimer, monitors, dispatch, resets,
                   nOffline, offlineFor, resetsSince, nonMonitorVars>>

Quiet == mphase = "run" /\ dispatch.event = "none"

\* the browser sees the network go: navigator.onLine turns false and the
\* offline event is dispatched to every registered listener
Net_Offline ==
    /\ Quiet
    /\ online
    /\ nOffline < MaxOffline
    /\ online' = FALSE
    /\ nOffline' = nOffline + 1
    /\ dispatch' = [event |-> "offline", todo |-> monitors]
    /\ offlineFor' = 0
    /\ resetsSince' = 0
    /\ UNCHANGED <<timeoutId, timers, nextTimer, monitors, mphase, resets, nonMonitorVars>>

\* the browser sees the network come back
Net_Online ==
    /\ Quiet
    /\ ~online
    /\ online' = TRUE
    /\ dispatch' = [event |-> "online", todo |-> monitors]
    /\ offlineFor' = 0
    /\ UNCHANGED <<timeoutId, timers, nextTimer, monitors, mphase, resets, nOffline,
                   resetsSince, nonMonitorVars>>

Dispatched ==
    dispatch' = IF dispatch.todo = 1 THEN [event |-> "none", todo |-> 0]
                ELSE [dispatch EXCEPT !.todo = @ - 1]

\* one onOffline listener is called
Listener_OnOffline ==
    /\ mphase = "run"
    /\ dispatch.event = "offline"
    /\ SetModule(scheduleReconnect(Cur))
    /\ Dispatched
    /\ UNCHANGED <<online, monitors, mphase, resets, nOffline, offlineFor, resetsSince,
                   nonMonitorVars>>

\* mutant: the online listener arms the timer as the offline listener does
Listener_OnOnline_Arms ==
    /\ mphase = "run"
    /\ dispatch.event = "online"
    /\ SetModule(scheduleReconnect(Cur))
    /\ Dispatched
    /\ UNCHANGED <<online, monitors, mphase, resets, nOffline, offlineFor, resetsSince,
                   nonMonitorVars>>

\* one onOnline listener is called
Listener_OnOnline ==
    /\ mphase = "run"
    /\ dispatch.event = "online"
    /\ SetModule(clearOfflineTimer(Cur))
    /\ Dispatched
    /\ UNCHANGED <<online, monitors, mphase, resets, nOffline, offlineFor, resetsSince,
                   nonMonitorVars>>

\* a second passes; a timer that is due fires before the next second
Tick ==
    /\ Quiet
    /\ \A t \in timers : t.left > 0
    /\ timers' = {[t EXCEPT !.left = @ - 1] : t \in timers}
    /\ offlineFor' = IF online THEN 0
                     ELSE IF offlineFor > ThresholdTicks THEN offlineFor
                     ELSE offlineFor + 1
    /\ UNCHANGED <<online, timeoutId, nextTimer, monitors, dispatch, mphase, resets,
                   nOffline, resetsSince, nonMonitorVars>>

\* the setTimeout callback: timeoutId = null, then
\* reconnectFirestoreAfterOffline() runs up to `await terminate(db)`
Timer_Fire(t) ==
    /\ Quiet
    /\ t \in timers
    /\ t.left = 0
    /\ timers' = timers \ {t}
    /\ timeoutId' = 0
    /\ resets' = Append(resets, [at |-> "terminate", steps |-> <<"terminate">>])
    /\ resetsSince' = resetsSince + 1
    /\ UNCHANGED <<online, nextTimer, monitors, dispatch, mphase, nOffline,
                   offlineFor, nonMonitorVars>>

\* ------------------------------------------ reconnectFirestoreAfterOffline
\* window.location.reload() ends the page, its timers and its pending
\* promises; the page that loads next starts again as MonitorInit describes
Reload == mphase' = "ended"

\* mutant: clearIndexedDbPersistence is in a try block of its own
Reset_TerminateSettles_ClearAnyway(i) ==
    /\ Quiet
    /\ resets[i].at = "terminate"
    /\ \/ resets' = [resets EXCEPT ![i].at = "clear", ![i].steps = Append(@, "clear")]
       \/ resets' = [resets EXCEPT ![i].at = "clear",
                                   ![i].steps = @ \o <<"warn", "clear">>]
    /\ UNCHANGED <<online, timeoutId, timers, nextTimer, monitors, dispatch, mphase,
                   nOffline, offlineFor, resetsSince, nonMonitorVars>>

\* `await terminate(db)` settles: resolved, clearIndexedDbPersistence(db) is
\* called; rejected, the catch block warns and the reload follows
Reset_TerminateSettles(i) ==
    /\ Quiet
    /\ resets[i].at = "terminate"
    /\ \/ /\ resets' = [resets EXCEPT ![i].at = "clear", ![i].steps = Append(@, "clear")]
          /\ UNCHANGED mphase
       \/ /\ resets' = [resets EXCEPT ![i].at = "done",
                                      ![i].steps = @ \o <<"warn", "reload">>]
          /\ Reload
    /\ UNCHANGED <<online, timeoutId, timers, nextTimer, monitors, dispatch,
                   nOffline, offlineFor, resetsSince, nonMonitorVars>>

\* `await clearIndexedDbPersistence(db)` settles; the reload follows either way
Reset_ClearSettles(i) ==
    /\ Quiet
    /\ resets[i].at = "clear"
    /\ \/ resets' = [resets EXCEPT ![i].at = "done", ![i].steps = Append(@, "reload")]
       \/ resets' = [resets EXCEPT ![i].at = "done",
                                   ![i].steps = @ \o <<"warn", "reload">>]
    /\ Reload
    /\ UNCHANGED <<online, timeoutId, timers, nextTimer, monitors, dispatch,
                   nOffline, offlineFor, resetsSince, nonMonitorVars>>

MonitorNext ==
    \/ Monitor_Start
    \/ Monitor_Up
    \/ Net_Offline
    \/ Net_Online
    \/ Listener_OnOffline
    \/ Listener_OnOnline
    \/ Tick
    \/ \E t \in timers : Timer_Fire(t)
    \/ \E i \in 1..Len(resets) : Reset_TerminateSettles(i)
    \/ \E i \in 1..Len(resets) : Reset_ClearSettles(i)

MonitorSpec == MonitorInit /\ [][MonitorNext]_vars

\* ------------------------------------- the background agent's renderer
Empty == [k \in {} |-> ""]
\* a data map entry: FCM leaves out what the sender did not set
OptS(k, v) == IF v = "" THEN Empty ELSE k :> v
OptV(k, v) == IF v.kind = "null" THEN Empty ELSE k :> v

TeamSync == <<" ", " ", "T", "e", "a", "m", " ", " ", "S", "y", "n", "c", " ", " ">>

\* the push messages drawn: with and without a notification block, each
\* title source absent, unusable or usable
Notifications ==
    {NoPayload.notification}
    \cup {[present |-> TRUE, title |-> t, body |-> JsStr(<<"b">>)] :
            t \in {JsNull, JsStr(<<" ">>), JsStr(<<"N", "t">>)}}
DataMaps ==
    { OptV("title", t) @@ OptV("label", l) @@ OptS("type", ty) @@ OptS("groupId", g)
        @@ OptS("alarmId", a) @@ c :
        t \in {JsNull, JsStr(<<>>), JsStr(<<"D", "t">>)},
        l \in {JsNull, JsStr(TeamSync), JsStr(LongLabel)},
        ty \in {"", "personal_alarm", "join_request", "group_alarm", "member_left"},
        g \in {"", GroupId},
        a \in {"", "a1"},
        c \in {Empty, "click_action" :> <<"/other">>} }
Payloads == [notification : Notifications, data : DataMaps]

\* payload.data?.k
Field(d, k) == IF k \in DOMAIN d THEN d[k] ELSE JsNull
\* data.k || dflt
FieldOr(d, k, dflt) == IF k \in DOMAIN d /\ d[k] # "" THEN d[k] ELSE dflt

\* !title || typeof title !== 'string' || title.trim().length === 0
Unusable(v) == v.kind # "string" \/ v.chars = <<>> \/ Trim(v.chars) = <<>>

\* mutant: data.label is tried before data.title
swTitle_LabelFirst(payload) ==
    LET t1 == payload.notification.title
        t2 == IF Unusable(t1) THEN Field(payload.data, "label") ELSE t1
        t3 == IF Unusable(t2) THEN Field(payload.data, "title") ELSE t2
        t4 == IF Unusable(t3) THEN DEFAULT ELSE t3.chars
        clean == CollapseWs(Trim(t4))
        cut == SubSeq(clean, 1, IF Len(clean) < 100 THEN Len(clean) ELSE 100)
    IN  IF cut = <<>> THEN DEFAULT ELSE cut

\* the title of onBackgroundMessage (lines 53-65)
swTitle(payload) ==
    LET t1 == payload.notification.title
        t2 == IF Unusable(t1) THEN Field(payload.data, "title") ELSE t1
        t3 == IF Unusable(t2) THEN Field(payload.data, "label") ELSE t2
        t4 == IF Unusable(t3) THEN DEFAULT ELSE t3.chars
        clean == CollapseWs(Trim(t4))
        cut == SubSeq(clean, 1, IF Len(clean) < 100 THEN Len(clean) ELSE 100)
    IN  IF cut = <<>> THEN DEFAULT ELSE cut

\* payload.notification?.body ?? payload.data?.body ?? ''
swBody(payload) ==
    IF payload.notification.body.kind # "null" THEN payload.notification.body
    ELSE IF Field(payload.data, "body").kind # "null" THEN payload.data.body
    ELSE JsStr(<<>>)

swClickAction(notificationType, groupId) ==
    IF notificationType = "join_request" /\ groupId # ""
        THEN <<"/?groupId=", groupId, "&pending=true">>
    ELSE IF notificationType \in {"group_alarm", "member_left"} /\ groupId # ""
        THEN <<"/?groupId=", groupId>>
    ELSE <<"/">>

\* mutant: ...data is spread after click_action
swOptions_SpreadLast(payload) ==
    LET data == payload.data
        notificationType == FieldOr(data, "type", "alarm")
        groupId == FieldOr(data, "groupId", "")
        isAlarm == notificationType \in {"personal_alarm", "group_alarm"}
    IN  [ body |-> swBody(payload),
          icon |-> "/vite.svg",
          badge |-> "/vite.svg",
          tag |-> IF FieldOr(data, "alarmId", "") # "" THEN <<data.alarmId>>
                  ELSE IF groupId # "" THEN <<notificationType, "_", groupId>>
                  ELSE <<notificationType>>,
          requireInteraction |-> isAlarm,
          vibrate |-> IF isAlarm THEN <<200, 100, 200, 100, 200>> ELSE <<200, 100, 200>>,
          data |-> data @@ ("click_action" :> swClickAction(notificationType, groupId))
                   @@ [type |-> notificationType, groupId |-> groupId],
          sound |-> "default" ]

\* the options of onBackgroundMessage (lines 67-107)
swOptions(payload) ==
    LET data == payload.data
        notificationType == FieldOr(data, "type", "alarm")
        groupId == FieldOr(data, "groupId", "")
        isAlarm == notificationType \in {"personal_alarm", "group_alarm"}
    IN  [ body |-> swBody(payload),
          icon |-> "/vite.svg",
          badge |-> "/vite.svg",
          tag |-> IF FieldOr(data, "alarmId", "") # "" THEN <<data.alarmId>>
                  ELSE IF groupId # "" THEN <<notificationType, "_", groupId>>
                  ELSE <<notificationType>>,
          requireInteraction |-> isAlarm,
          vibrate |-> IF isAlarm THEN <<200, 100, 200, 100, 200>> ELSE <<200, 100, 200>>,
          data |-> ("click_action" :> swClickAction(notificationType, groupId))
                   @@ data @@ [type |-> notificationType, groupId |-> groupId],
          sound |-> "default" ]

\* { ...options, data: { ...options.data, originalTitle: title } }
swFallbackOptions(options, title) ==
    [options EXCEPT !.data = ("originalTitle" :> title) @@ options.data]

Alarma == <<"A", "l", "a", "r", "m", "a">>
TienesUnaAlarma == <<"T","i","e","n","e","s"," ","u","n","a"," ","a","l","a","r","m","a">>

\* the options of the last resort (lines 134-138)
swMinimalOptions(body) ==
    [ body |-> IF body.kind = "string" /\ body.chars # <<>> THEN body
               ELSE JsStr(TienesUnaAlarma),
      icon |-> "/vite.svg",
      tag |-> <<"alarm_fallback">> ]

Show(title, options, st) == [title |-> title, options |-> options, st |-> st]

ServerIdle ==
    /\ users = [u \in Users |-> [exists |-> TRUE, fcmToken |-> NoToken]]
    /\ ev = NoEvent
    /\ pc = "idle"
    /\ loc = NoLoc
    /\ calls = <<>>
    /\ outcome = "none"
    /\ nEvents = 0
    /\ nSaves = 0
    /\ tokenHist = [u \in Users |-> {}]

SwInit == ServerIdle /\ MonitorIdle /\ SwIdle /\ RestIdle

\* messaging.onBackgroundMessage(payload): title and options are computed
\* and showNotification is called; a call that throws is caught by the outer
\* catch, which rejects the promise
SW_Message ==
    /\ swTask = "none"
    /\ \E payload \in Payloads :
          /\ swPayload' = payload
          /\ \/ /\ shows' = <<Show(swTitle(payload), swOptions(payload), "pending")>>
                /\ swTask' = "pending"
             \/ /\ shows' = <<Show(swTitle(payload), swOptions(payload), "threw")>>
                /\ swTask' = "rejected"
    /\ UNCHANGED nonSwVars

Settle(i, st) == [shows EXCEPT ![i].st = st]

\* the promise of a showNotification call resolves: resolve()
SW_ShowResolved(i) ==
    /\ shows[i].st = "pending"
    /\ shows' = Settle(i, "shown")
    /\ swTask' = "resolved"
    /\ UNCHANGED <<swPayload, nonSwVars>>

\* mutant: resolve() is called as soon as the second call is made
SW_FirstRejected_ResolveEarly ==
    /\ Len(shows) = 1
    /\ shows[1].st = "pending"
    /\ shows' = Append(Settle(1, "failed"),
                       Show(DEFAULT, swFallbackOptions(shows[1].options, shows[1].title),
                            "pending"))
    /\ swTask' = "resolved"
    /\ UNCHANGED <<swPayload, nonSwVars>>

\* the promise of the first call rejects: the call is repeated with the
\* default title; if that call throws, the inner catch rejects the promise
SW_FirstRejected ==
    /\ Len(shows) = 1
    /\ shows[1].st = "pending"
    /\ LET second == Show(DEFAULT, swFallbackOptions(shows[1].options, shows[1].title),
                          "pending")
       IN  \/ /\ shows' = Append(Settle(1, "failed"), second)
              /\ UNCHANGED swTask
           \/ /\ shows' = Append(Settle(1, "failed"), [second EXCEPT !.st = "threw"])
              /\ swTask' = "rejected"
    /\ UNCHANGED <<swPayload, nonSwVars>>

\* the promise of the second call rejects: the last resort is shown; if that
\* call throws inside the catch callback, nothing settles the promise
SW_SecondRejected ==
    /\ Len(shows) = 2
    /\ shows[2].st = "pending"
    /\ LET third == Show(Alarma, swMinimalOptions(shows[1].options.body), "pending")
       IN  \/ shows' = Append(Settle(2, "failed"), third)
           \/ shows' = Append(Settle(2, "failed"), [third EXCEPT !.st = "threw"])
    /\ UNCHANGED <<swPayload, swTask, nonSwVars>>

\* the promise of the last call rejects: reject(minErr)
SW_ThirdRejected ==
    /\ Len(shows) = 3
    /\ shows[3].st = "pending"
    /\ shows' = Settle(3, "failed")
    /\ swTask' = "rejected"
    /\ UNCHANGED <<swPayload, nonSwVars>>

SwNext ==
    \/ SW_Message
    \/ \E i \in 1..Len(shows) : SW_ShowResolved(i)
    \/ SW_FirstRejected
    \/ SW_SecondRejected
    \/ SW_ThirdRejected

SwSpec == SwInit /\ [][SwNext]_vars

\* -------------------------------------- the page's foreground messages
MyDays == <<"M", "y", "D", "a", "y", "s">>

\* notif.title ?? 'MyDays'
fgTitle(payload) ==
    IF payload.notification.title.kind = "null" THEN JsStr(MyDays)
    ELSE payload.notification.title

\* the options of onForegroundMessage (lines 222-228)
fgOptions(payload) ==
    [ body |-> payload.notification.body,
      icon |-> "/vite.svg",
      badge |-> "/vite.svg",
      tag |-> <<FieldOr(payload.data, "type", "notification")>>,
      data |-> payload.data ]

FgInit == ServerIdle /\ MonitorIdle /\ SwIdle /\ RestIdle

\* the onMessage callback (lines 207-235): without a notification block, or
\* without service worker support, nothing is shown
FG_Message ==
    /\ fgPc = "idle"
    /\ \E payload \in Payloads, supported \in BOOLEAN :
          /\ fgPayload' = payload
          /\ IF payload.notification.present /\ supported
                THEN fgPc' = "ready" /\ UNCHANGED fgReg
                ELSE /\ fgPc' = "done"
                     /\ fgReg' = IF supported THEN fgReg ELSE "unsupported"
    /\ UNCHANGED <<fgShows, nonFgVars>>

\* navigator.serviceWorker.ready resolves with the registration: the
\* notification is shown when reg.active is activated
FG_Ready ==
    /\ fgPc = "ready"
    /\ \E active \in {"activating", "activated"} :
          /\ fgReg' = active
          /\ fgShows' = IF active = "activated"
                        THEN <<Show(fgTitle(fgPayload), fgOptions(fgPayload), "pending")>>
                        ELSE fgShows
    /\ fgPc' = "done"
    /\ UNCHANGED <<fgPayload, nonFgVars>>

\* the promise of reg.showNotification settles; .catch(() => {}) drops a failure
FG_ShowSettled ==
    /\ fgShows # <<>>
    /\ fgShows[1].st = "pending"
    /\ \E st \in {"shown", "failed"} : fgShows' = [fgShows EXCEPT ![1].st = st]
    /\ UNCHANGED <<fgPayload, fgPc, fgReg, nonFgVars>>

FgNext == FG_Message \/ FG_Ready \/ FG_ShowSettled

FgSpec == FgInit /\ [][FgNext]_vars


\* ------------------------------------------------- the label sanitizers
\* every string of at most MaxShort characters over a letter, a space and a tab
ShortLabels == UNION {[1..n -> {"a", " ", "\t"}] : n \in 0..MaxShort}
\* strings about as long as the limit, with whitespace at the first position
\* and around the positions where the sanitizers cut
LongLabels ==
    { [i \in 1..n |-> IF i \in B THEN " " ELSE "x"] :
        n \in (MAX_LENGTH - 1)..(MAX_LENGTH + MaxOver),
        B \in SUBSET {1, MAX_LENGTH - 3, MAX_LENGTH - 2, MAX_LENGTH, MAX_LENGTH + 1} }
Gapped == <<"a", " ", "\t", " ", "b">>
\* null or undefined, a number, strings
RawLabels ==
    {JsNull, JsNum(<<"7">>)}
    \cup {JsStr(s) : s \in ShortLabels \cup LongLabels \cup {TeamSync, Gapped}}

\* the title the background agent displays for a push message whose
\* notification.title is the raw value (lines 53-65)
swSanitizeTitle(label) ==
    swTitle([notification |-> [present |-> TRUE, title |-> label, body |-> JsNull],
             data |-> Empty])

SanitizeInit ==
    /\ ServerIdle /\ MonitorIdle /\ SwIdle /\ FgIdle /\ RetryIdle /\ LifeIdle /\ LateIdle
    /\ raw \in RawLabels
    /\ srvOut = NotRun
    /\ cliOut = NotRun
    /\ swOut = NotRun
    /\ fedFrom = NotRun

\* functions/index.js: sanitizeAlarmLabel(raw)
San_Server ==
    /\ srvOut = NotRun
    /\ srvOut' = JsStr(sanitizeAlarmLabel(raw))
    /\ UNCHANGED <<raw, cliOut, swOut, fedFrom, nonSanVars>>

\* utils/sanitizeAlarmLabel.ts: sanitizeAlarmLabel(raw)
San_Client ==
    /\ cliOut = NotRun
    /\ cliOut' = JsStr(clientSanitizeAlarmLabel(raw))
    /\ UNCHANGED <<raw, srvOut, swOut, fedFrom, nonSanVars>>

\* firebase-messaging-sw.js: the title made of raw
San_Sw ==
    /\ swOut = NotRun
    /\ swOut' = JsStr(swSanitizeTitle(raw))
    /\ UNCHANGED <<raw, srvOut, cliOut, fedFrom, nonSanVars>>

\* the result of the server's or of the client's sanitizer is handed to the
\* sanitizers as the next raw label
San_Again ==
    /\ fedFrom = NotRun
    /\ \E by \in {"server", "client"} :
          LET out == IF by = "server" THEN srvOut ELSE cliOut
          IN  /\ out # NotRun
              /\ raw' = out
              /\ fedFrom' = [kind |-> by, chars |-> out.chars]
    /\ srvOut' = NotRun
    /\ cliOut' = NotRun
    /\ swOut' = NotRun
    /\ UNCHANGED nonSanVars

SanitizeNext == San_Server \/ San_Client \/ San_Sw \/ San_Again

SanitizeSpec == SanitizeInit /\ [][SanitizeNext]_vars


\* ------------------------------------------------ the read retry wrapper
\* Messages are sequences of words and marks; the patterns are matched word
\* by word, letters folded to lower case as the /i flag does.
Lower ==
    ("IDBDatabase" :> "idbdatabase") @@ ("IndexedDB" :> "indexeddb")
    @@ ("INDEXEDDB" :> "indexeddb") @@ ("CLOSED" :> "closed")
    @@ ("InvalidStateError" :> "invalidstateerror") @@ ("Database" :> "database")
    @@ ("Failed" :> "failed") @@ ("IDB" :> "idb") @@ ("The" :> "the")
    @@ ("Missing" :> "missing") @@ ("WAS" :> "was")
Fold(w) == IF w \in DOMAIN Lower THEN Lower[w] ELSE w

\* the words ws occur in msg one after the other, starting at position i
WordsAt(msg, ws, i) ==
    /\ i + Len(ws) - 1 <= Len(msg)
    /\ \A k \in 1..Len(ws) : Fold(msg[i + k - 1]) = ws[k]
HasWords(msg, ws) == \E i \in 1..Len(msg) : WordsAt(msg, ws, i)

\* IDB_CLOSING_PATTERNS.some((p) => p.test(msg))
MatchesClosing(msg) ==
    \/ HasWords(msg, <<"idbdatabase", "connection", "is", "closing">>)
    \/ HasWords(msg, <<"connection", "is", "closing">>)
    \/ \E i, j \in 1..Len(msg) :
          i < j /\ Fold(msg[i]) = "indexeddb" /\ Fold(msg[j]) = "closed"
    \/ HasWords(msg, <<"invalidstateerror">>)
    \/ \E i \in 1..Len(msg) :
          /\ Fold(msg[i]) \in {"database", "idbdatabase"}
          /\ WordsAt(msg, <<"has", "been", "closed">>, i + 1)
    \/ \E i, j \in 1..Len(msg) :
          /\ WordsAt(msg, <<"failed", "to", "execute">>, i)
          /\ i + 3 <= j
          /\ WordsAt(msg, <<"on">>, j)
          /\ j < Len(msg)
          /\ Fold(msg[j + 1]) \in {"idb", "idbdatabase"}

\* thrown values: an Error with its message, a string, undefined
JsError(msg) == [kind |-> "error", msg |-> msg]
JsText(msg) == [kind |-> "string", msg |-> msg]

isIndexedDBClosedError(e) ==
    IF e.kind = "undefined" \/ (e.kind = "string" /\ e.msg = <<>>) THEN FALSE
    ELSE MatchesClosing(e.msg)

\* what fn may throw: errors of the closed-store kind in several wordings,
\* other errors, an Error without message, undefined
Thrown ==
    { JsError(<<"Failed", "to", "execute", "'", "transaction", "'", "on", "'",
                "IDBDatabase", "'", ":", "The", "database", "connection", "is",
                "closing", ".">>),
      JsError(<<"INDEXEDDB", "WAS", "CLOSED">>),
      JsError(<<"InvalidStateError">>),
      JsText(<<"Database", "has", "been", "closed">>),
      JsError(<<"Missing", "or", "insufficient", "permissions", ".">>),
      JsError(<<"closed", "IndexedDB">>),
      JsError(<<>>),
      Undefined }

\* what fn may resolve with: a member list, null
RetryValues ==
    { [kind |-> "value", msg |-> <<"u1">>],
      [kind |-> "value", msg |-> <<"u2">>],
      [kind |-> "null", msg |-> <<>>] }

\* the options argument: each field given or left out
RetryOptions ==
    { m @@ d : m \in {Empty} \cup {"maxRetries" :> n : n \in 0..MaxRetriesOpt},
               d \in {Empty} \cup {"delayMs" :> 100} }

\* the caller taken is the page's rejected-request check: its effect has passed
\* its guard (profile.groupId set, user signed in) and called getGroupMembers,
\* which is about to call the wrapper
RetryInit ==
    /\ ServerIdle /\ MonitorIdle /\ SwIdle /\ FgIdle /\ SanIdle /\ LifeIdle
    /\ PingIdle /\ ClickIdle
    /\ mUid = "u1"
    /\ mProfileGroup = GroupId
    /\ mPc = "reading"
    /\ mMembers = Undefined
    /\ mCleared = FALSE
    /\ RetryIdle

\* withRetryOnIndexedDBClosed(fn, options) up to the first await fn()
Retry_Call ==
    /\ rtPc = "idle"
    /\ \E options \in RetryOptions :
          LET delayMs == IF "delayMs" \in DOMAIN options THEN options.delayMs
                         ELSE DEFAULT_DELAY_MS
              maxRetries == IF "maxRetries" \in DOMAIN options THEN options.maxRetries
                            ELSE DEFAULT_MAX_RETRIES
          IN  /\ rtDelay' = delayMs
              /\ rtMax' = maxRetries
              /\ rtAttempt' = 0
              /\ IF 0 <= maxRetries
                    THEN rtPc' = "calling" /\ rtStarted' = rtStarted + 1
                         /\ UNCHANGED rtResult
                    ELSE rtPc' = "thrown" /\ rtResult' = rtLastError
                         /\ UNCHANGED rtStarted
    /\ UNCHANGED <<rtLastError, rtLog, rtWaits, nonRetryVars>>

\* fn() resolves: return await fn()
Retry_FnResolved ==
    /\ rtPc = "calling"
    /\ \E v \in RetryValues :
          /\ rtLog' = Append(rtLog, [ok |-> TRUE, val |-> v])
          /\ rtResult' = v
    /\ rtPc' = "returned"
    /\ UNCHANGED <<rtMax, rtDelay, rtAttempt, rtLastError, rtStarted, rtWaits,
                   nonRetryVars>>

\* mutant: only the first failure is retried
Retry_FnRejected_OnceOnly(e) ==
    /\ rtPc = "calling"
    /\ rtLog' = Append(rtLog, [ok |-> FALSE, val |-> e])
    /\ rtLastError' = e
    /\ IF rtAttempt < 1 /\ rtAttempt < rtMax /\ isIndexedDBClosedError(e)
          THEN rtPc' = "waiting" /\ UNCHANGED rtResult
          ELSE rtPc' = "thrown" /\ rtResult' = e
    /\ UNCHANGED <<rtMax, rtDelay, rtAttempt, rtStarted, rtWaits, nonRetryVars>>

\* mutant: one retry too few
Retry_FnRejected_OneLess(e) ==
    /\ rtPc = "calling"
    /\ rtLog' = Append(rtLog, [ok |-> FALSE, val |-> e])
    /\ rtLastError' = e
    /\ IF rtAttempt < rtMax - 1 /\ isIndexedDBClosedError(e)
          THEN rtPc' = "waiting" /\ UNCHANGED rtResult
          ELSE rtPc' = "thrown" /\ rtResult' = e
    /\ UNCHANGED <<rtMax, rtDelay, rtAttempt, rtStarted, rtWaits, nonRetryVars>>

\* mutant: every error is retried
Retry_FnRejected_AnyError(e) ==
    /\ rtPc = "calling"
    /\ rtLog' = Append(rtLog, [ok |-> FALSE, val |-> e])
    /\ rtLastError' = e
    /\ IF rtAttempt < rtMax
          THEN rtPc' = "waiting" /\ UNCHANGED rtResult
          ELSE rtPc' = "thrown" /\ rtResult' = e
    /\ UNCHANGED <<rtMax, rtDelay, rtAttempt, rtStarted, rtWaits, nonRetryVars>>

\* fn() rejects with e: the catch block (lines 38-48); the console.warn is
\* itself guarded and changes nothing
Retry_FnRejected(e) ==
    /\ rtPc = "calling"
    /\ rtLog' = Append(rtLog, [ok |-> FALSE, val |-> e])
    /\ rtLastError' = e
    /\ IF rtAttempt < rtMax /\ isIndexedDBClosedError(e)
          THEN rtPc' = "waiting" /\ UNCHANGED rtResult
          ELSE rtPc' = "thrown" /\ rtResult' = e
    /\ UNCHANGED <<rtMax, rtDelay, rtAttempt, rtStarted, rtWaits, nonRetryVars>>

\* the setTimeout of delayMs fires: continue, attempt++, the loop test, fn()
Retry_DelayElapsed ==
    /\ rtPc = "waiting"
    /\ rtWaits' = Append(rtWaits, rtDelay)
    /\ rtAttempt' = rtAttempt + 1
    /\ IF rtAttempt + 1 <= rtMax
          THEN rtPc' = "calling" /\ rtStarted' = rtStarted + 1 /\ UNCHANGED rtResult
          ELSE rtPc' = "thrown" /\ rtResult' = rtLastError /\ UNCHANGED rtStarted
    /\ UNCHANGED <<rtMax, rtDelay, rtLastError, rtLog, nonRetryVars>>

\* getGroupMembers returns: what the wrapper returned, or null from the catch
\* block when the wrapper threw
getGroupMembers_Return ==
    /\ mPc = "reading"
    /\ rtPc \in {"returned", "thrown"}
    /\ mMembers' = IF rtPc = "returned" THEN rtResult ELSE [kind |-> "null", msg |-> <<>>]
    /\ mPc' = "read"
    /\ UNCHANGED <<mUid, mProfileGroup, mCleared, retryVars, nonMemberVars>>

\* members == null || !members.includes(user.uid)
notMember(members, uid) ==
    \/ members.kind = "null"
    \/ ~\E i \in 1..Len(members.msg) : members.msg[i] = uid

\* the effect's callback on the members: clearMyGroup(user.uid) is called for a
\* user taken for rejected
Effect_Members ==
    /\ mPc = "read"
    /\ IF notMember(mMembers, mUid)
          THEN mCleared' = TRUE /\ mPc' = "clearing"
          ELSE mPc' = "done" /\ UNCHANGED mCleared
    /\ UNCHANGED <<mUid, mProfileGroup, mMembers, retryVars, nonMemberVars>>

\* clearMyGroup settles: resolved, setProfile drops groupId and groupName;
\* rejected, nothing follows
Effect_ClearSettled ==
    /\ mPc = "clearing"
    /\ mPc' = "done"
    /\ \/ mProfileGroup' = ""
       \/ UNCHANGED mProfileGroup
    /\ UNCHANGED <<mUid, mMembers, mCleared, retryVars, nonMemberVars>>

RetryNext ==
    \/ Retry_Call
    \/ Retry_FnResolved
    \/ \E e \in Thrown : Retry_FnRejected(e)
    \/ Retry_DelayElapsed
    \/ getGroupMembers_Return
    \/ Effect_Members
    \/ Effect_ClearSettled

RetrySpec == RetryInit /\ [][RetryNext]_vars


\* ------------------------------- the background agent's life cycle
\* The host's part is taken from what the handlers' comments rely on:
\* skipWaiting() lets the installed worker activate without waiting for the
\* pages of the old worker to close, and clients.claim() makes the active
\* worker the controller of every open page in scope. A worker that is
\* installed without the skip-waiting flag waits while an old worker
\* controls a page.
Windows == 1..MaxWindows

\* event.data of a control message
NoData == [type |-> "null", isArray |-> FALSE, alarms |-> <<>>, port |-> FALSE]
ControlMessages ==
    { NoData,
      [type |-> "SKIP_WAITING", isArray |-> FALSE, alarms |-> <<>>, port |-> FALSE],
      [type |-> "CACHE_ALARMS", isArray |-> TRUE, alarms |-> <<"a1">>, port |-> FALSE],
      [type |-> "CACHE_ALARMS", isArray |-> TRUE, alarms |-> <<>>, port |-> FALSE],
      [type |-> "CACHE_ALARMS", isArray |-> FALSE, alarms |-> <<"a2">>, port |-> FALSE],
      [type |-> "KEEP_ALIVE", isArray |-> FALSE, alarms |-> <<>>, port |-> TRUE],
      [type |-> "KEEP_ALIVE", isArray |-> FALSE, alarms |-> <<>>, port |-> FALSE],
      [type |-> "OTHER", isArray |-> FALSE, alarms |-> <<>>, port |-> FALSE] }

\* the worker has been evaluated and its install event is about to be
\* dispatched; pages may be open, controlled by an old worker or by none
LifeInit ==
    /\ ServerIdle /\ MonitorIdle /\ SwIdle /\ FgIdle /\ SanIdle /\ RetryIdle
    /\ PingIdle /\ ClickIdle /\ MemberIdle
    /\ swState = "installing"
    /\ installHandled = FALSE
    /\ skipWaitingFlag = FALSE
    /\ skipCalls = <<>>
    /\ oldActive \in BOOLEAN
    /\ \E open \in SUBSET Windows :
          windows \in [open -> IF oldActive THEN {"none", "old"} ELSE {"none"}]
    /\ activateSt = "none"
    /\ extended = FALSE
    /\ cachedAlarms = <<>>
    /\ acks = <<>>
    /\ msgs = <<>>
    /\ claimed = {}

\* the host activates the worker: it becomes the registration's active
\* worker, and the pages the old worker controlled are now its pages
Activated(ws) == [w \in DOMAIN ws |-> IF ws[w] = "old" THEN "this" ELSE ws[w]]

\* the install handler (lines 21-24): self.skipWaiting()
SW_Install ==
    /\ swState = "installing"
    /\ ~installHandled
    /\ installHandled' = TRUE
    /\ skipWaitingFlag' = TRUE
    /\ skipCalls' = Append(skipCalls, "install")
    /\ UNCHANGED <<swState, oldActive, windows, activateSt, extended, cachedAlarms, acks,
                   msgs, claimed, nonLifeVars>>

\* the host, the install event handled: the worker activates at once when
\* the skip-waiting flag is set or no page is controlled by an old worker
Life_Installed ==
    /\ swState = "installing"
    /\ installHandled
    /\ IF skipWaitingFlag \/ ~\E w \in DOMAIN windows : windows[w] = "old"
          THEN /\ swState' = "activating"
               /\ oldActive' = FALSE
               /\ windows' = Activated(windows)
          ELSE /\ swState' = "waiting"
               /\ UNCHANGED <<oldActive, windows>>
    /\ UNCHANGED <<installHandled, skipWaitingFlag, skipCalls, activateSt, extended,
                   cachedAlarms, acks, msgs, claimed, nonLifeVars>>

\* mutant: clients.claim() is called without event.waitUntil
SW_Activate_NoWaitUntil ==
    /\ swState = "activating"
    /\ activateSt = "none"
    /\ activateSt' = "claiming"
    /\ extended' = FALSE
    /\ UNCHANGED <<swState, installHandled, skipWaitingFlag, skipCalls, oldActive,
                   windows, cachedAlarms, acks, msgs, claimed, nonLifeVars>>

\* the activate handler (lines 31-39):
\* event.waitUntil(self.clients.claim().then(() => self.registration.update()))
SW_Activate ==
    /\ swState = "activating"
    /\ activateSt = "none"
    /\ activateSt' = "claiming"
    /\ extended' = TRUE
    /\ UNCHANGED <<swState, installHandled, skipWaitingFlag, skipCalls, oldActive,
                   windows, cachedAlarms, acks, msgs, claimed, nonLifeVars>>

\* the promise of clients.claim() resolves: every open page is controlled by
\* this worker; the then callback calls self.registration.update()
Life_ClaimResolved ==
    /\ activateSt = "claiming"
    /\ swState \in {"activating", "activated"}
    /\ claimed' = {w \in DOMAIN windows : windows[w] # "this"}
    /\ windows' = [w \in DOMAIN windows |-> "this"]
    /\ activateSt' = "updating"
    /\ UNCHANGED <<swState, installHandled, skipWaitingFlag, skipCalls, oldActive,
                   extended, cachedAlarms, acks, msgs, nonLifeVars>>

\* the promise of self.registration.update() settles, either way
Life_UpdateSettled ==
    /\ activateSt = "updating"
    /\ activateSt' = "settled"
    /\ UNCHANGED <<swState, installHandled, skipWaitingFlag, skipCalls, oldActive,
                   windows, extended, cachedAlarms, acks, msgs, claimed, nonLifeVars>>

\* the host, the activate event handled and the promise given to waitUntil
\* settled: the worker is activated
Life_Activated ==
    /\ swState = "activating"
    /\ activateSt # "none"
    /\ extended => activateSt = "settled"
    /\ swState' = "activated"
    /\ UNCHANGED <<installHandled, skipWaitingFlag, skipCalls, oldActive, windows,
                   activateSt, extended, cachedAlarms, acks, msgs, claimed, nonLifeVars>>

\* the host: a newer worker is activated and replaces this one
Life_Replaced ==
    /\ swState = "activated"
    /\ swState' = "redundant"
    /\ windows' = [w \in DOMAIN windows |-> "newer"]
    /\ UNCHANGED <<installHandled, skipWaitingFlag, skipCalls, oldActive, activateSt,
                   extended, cachedAlarms, acks, msgs, claimed, nonLifeVars>>

\* a page is closed; a waiting worker activates when the old worker is left
\* without pages
Window_Close(w) ==
    /\ w \in DOMAIN windows
    /\ LET left == [v \in DOMAIN windows \ {w} |-> windows[v]]
       IN  IF swState = "waiting" /\ ~\E v \in DOMAIN left : left[v] = "old"
              THEN /\ swState' = "activating"
                   /\ oldActive' = FALSE
                   /\ windows' = left
              ELSE /\ windows' = left
                   /\ UNCHANGED <<swState, oldActive>>
    /\ UNCHANGED <<installHandled, skipWaitingFlag, skipCalls, activateSt, extended,
                   cachedAlarms, acks, msgs, claimed, nonLifeVars>>

\* mutant: the alarms of a CACHE_ALARMS message are added to the cache
SW_ControlMessage_Merge ==
    /\ installHandled
    /\ swState # "redundant"
    /\ Len(msgs) < MaxMessages
    /\ \E data \in ControlMessages :
          /\ (data.type = "KEEP_ALIVE" /\ data.port) => pgQueue > 0
          /\ pgQueue' = IF data.type = "KEEP_ALIVE" /\ data.port THEN pgQueue - 1
                        ELSE pgQueue
          /\ msgs' = Append(msgs, data)
          /\ IF data.type = "null"
                THEN UNCHANGED <<swState, skipWaitingFlag, skipCalls, oldActive, windows,
                                 cachedAlarms, acks>>
             ELSE IF data.type = "SKIP_WAITING"
                THEN /\ skipWaitingFlag' = TRUE
                     /\ skipCalls' = Append(skipCalls, "message")
                     /\ IF swState = "waiting"
                           THEN /\ swState' = "activating"
                                /\ oldActive' = FALSE
                                /\ windows' = Activated(windows)
                           ELSE UNCHANGED <<swState, oldActive, windows>>
                     /\ UNCHANGED <<cachedAlarms, acks>>
             ELSE /\ cachedAlarms' = IF data.type = "CACHE_ALARMS" /\ data.isArray
                                     THEN cachedAlarms \o data.alarms ELSE cachedAlarms
                  /\ acks' = IF data.type = "KEEP_ALIVE" /\ data.port
                             THEN Append(acks, [type |-> "KEEP_ALIVE_ACK",
                                                timestamp |-> Len(msgs) + 1])
                             ELSE acks
                  /\ UNCHANGED <<swState, skipWaitingFlag, skipCalls, oldActive, windows>>
    /\ UNCHANGED <<installHandled, activateSt, extended, claimed, pgSent, pgAcked,
                   pgRegisters, nonLifePingVars>>

\* the message handler (lines 219-235); the install event is the first
\* event the worker is given. A KEEP_ALIVE message with a reply port is one of
\* the page's pings; Date.now() is the number of the message, a logical clock
SW_ControlMessage ==
    /\ installHandled
    /\ swState # "redundant"
    /\ Len(msgs) < MaxMessages
    /\ \E data \in ControlMessages :
          /\ (data.type = "KEEP_ALIVE" /\ data.port) => pgQueue > 0
          /\ pgQueue' = IF data.type = "KEEP_ALIVE" /\ data.port THEN pgQueue - 1
                        ELSE pgQueue
          /\ msgs' = Append(msgs, data)
          /\ IF data.type = "null"
                THEN UNCHANGED <<swState, skipWaitingFlag, skipCalls, oldActive, windows,
                                 cachedAlarms, acks>>
             ELSE IF data.type = "SKIP_WAITING"
                THEN /\ skipWaitingFlag' = TRUE
                     /\ skipCalls' = Append(skipCalls, "message")
                     /\ IF swState = "waiting"
                           THEN /\ swState' = "activating"
                                /\ oldActive' = FALSE
                                /\ windows' = Activated(windows)
                           ELSE UNCHANGED <<swState, oldActive, windows>>
                     /\ UNCHANGED <<cachedAlarms, acks>>
             ELSE /\ cachedAlarms' = IF data.type = "CACHE_ALARMS" /\ data.isArray
                                     THEN data.alarms ELSE cachedAlarms
                  /\ acks' = IF data.type = "KEEP_ALIVE" /\ data.port
                             THEN Append(acks, [type |-> "KEEP_ALIVE_ACK",
                                                timestamp |-> Len(msgs) + 1])
                             ELSE acks
                  /\ UNCHANGED <<swState, skipWaitingFlag, skipCalls, oldActive, windows>>
    /\ UNCHANGED <<installHandled, activateSt, extended, claimed, pgSent, pgAcked,
                   pgRegisters, nonLifePingVars>>

\* the page of window w has no live controller: !controller ||
\* controller.state === 'redundant'
needsRegister(w) ==
    \/ windows[w] = "none"
    \/ windows[w] = "this" /\ swState = "redundant"

\* mutant: the worker is registered again when an acknowledgment is missing
ensureServiceWorkerAlive_OnMissedAck(w) ==
    IF needsRegister(w) \/ pgAcked < pgSent
        THEN pgRegisters' = pgRegisters + 1
        ELSE UNCHANGED pgRegisters

\* ensureServiceWorkerAlive() in the page of window w
ensureServiceWorkerAlive(w) ==
    IF needsRegister(w)
        THEN pgRegisters' = pgRegisters + 1
        ELSE UNCHANGED pgRegisters

\* pingServiceWorker() in the page of window w: a KEEP_ALIVE message with a
\* fresh reply port is posted to the controller, if there is one; a message
\* posted to another worker than this one is not followed further
pingServiceWorker(w) ==
    IF windows[w] # "none"
        THEN /\ pgSent' = pgSent + 1
             /\ pgQueue' = IF windows[w] = "this" /\ swState # "redundant"
                           THEN pgQueue + 1 ELSE pgQueue
        ELSE UNCHANGED <<pgSent, pgQueue>>

\* setInterval(pingServiceWorker, 30000)
Page_PingTimer(w) ==
    /\ w \in DOMAIN windows
    /\ windows[w] # "none"
    /\ pgSent < MaxPings
    /\ pingServiceWorker(w)
    /\ UNCHANGED <<pgAcked, pgRegisters, lifeVars, nonLifePingVars>>

\* setInterval(ensureServiceWorkerAlive, 60000)
Page_EnsureTimer(w) ==
    /\ w \in DOMAIN windows
    /\ needsRegister(w)
    /\ pgRegisters < MaxPings
    /\ ensureServiceWorkerAlive(w)
    /\ UNCHANGED <<pgSent, pgQueue, pgAcked, lifeVars, nonLifePingVars>>

\* the visibilitychange listener when the page becomes visible
Page_Visible(w) ==
    /\ w \in DOMAIN windows
    /\ pgSent < MaxPings
    /\ pgRegisters < MaxPings
    /\ needsRegister(w) \/ windows[w] # "none"
    /\ ensureServiceWorkerAlive(w)
    /\ pingServiceWorker(w)
    /\ UNCHANGED <<pgAcked, lifeVars, nonLifePingVars>>

\* channel.port1.onmessage for an acknowledgment the worker has posted: it is
\* logged
Page_Ack ==
    /\ pgAcked < Len(acks)
    /\ pgAcked' = pgAcked + 1
    /\ UNCHANGED <<pgSent, pgQueue, pgRegisters, lifeVars, nonLifePingVars>>

LifeNext ==
    \/ SW_Install
    \/ Life_Installed
    \/ SW_Activate
    \/ Life_ClaimResolved
    \/ Life_UpdateSettled
    \/ Life_Activated
    \/ Life_Replaced
    \/ \E w \in Windows : Window_Close(w)
    \/ SW_ControlMessage
    \/ \E w \in Windows : Page_PingTimer(w)
    \/ \E w \in Windows : Page_EnsureTimer(w)
    \/ \E w \in Windows : Page_Visible(w)
    \/ Page_Ack

LifeSpec == LifeInit /\ [][LifeNext]_vars


\* ---------------------------------------------------------------- click
\* The notificationclick handler of public/firebase-messaging-sw.js and the
\* page's listener for the messages it posts (unnamed/part_003).

\* the data a displayed notification carries: what swOptions attached to it, or
\* nothing at all for the minimal notification
ClickData ==
    {Empty} \cup { swOptions([notification |-> NoPayload.notification, data |-> d]).data :
                     d \in DataMaps }

\* clients.matchAll({type: 'window', includeUncontrolled: true}) resolves with
\* window clients of the worker's own origin
WindowClients ==
    { <<>>,
      << [url |-> <<"/">>, origin |-> "self"] >>,
      << [url |-> <<"/other">>, origin |-> "self"],
         [url |-> <<"/">>, origin |-> "self"] >> }

\* data.click_action || '/'
clickUrl(data) ==
    IF "click_action" \in DOMAIN data /\ data.click_action # <<>>
        THEN data.click_action
        ELSE <<"/">>

\* client.url === url || client.url.startsWith(self.location.origin)
clientMatches(client, url) == client.url = url \/ client.origin = "self"

\* the index of the first client of the list that matches; 0 if none does
firstMatch(clientList, url) ==
    IF \E i \in 1..Len(clientList) : clientMatches(clientList[i], url)
        THEN CHOOSE i \in 1..Len(clientList) :
                /\ clientMatches(clientList[i], url)
                /\ \A j \in 1..(i - 1) : ~clientMatches(clientList[j], url)
        ELSE 0

\* the messages the callback of client.focus() posts (lines 176-203)
navigateMessages(data) ==
    LET type == FieldOr(data, "type", "")
        groupId == FieldOr(data, "groupId", "")
    IN  IF type = "join_request" /\ groupId # ""
            THEN << [type |-> "navigate", groupId |-> groupId, action |-> "show_pending"] >>
        ELSE IF type = "group_alarm" /\ groupId # ""
            THEN << [type |-> "navigate", groupId |-> groupId, action |-> "show_group"] >>
        ELSE IF type = "member_left" /\ groupId # ""
            THEN << [type |-> "navigate", groupId |-> groupId, action |-> "show_group"] >>
        ELSE IF type = "personal_alarm"
            THEN << [type |-> "navigate", action |-> "show_personal"] >>
        ELSE <<>>

ClickInit ==
    /\ ServerIdle /\ MonitorIdle /\ SwIdle /\ FgIdle /\ SanIdle /\ RetryIdle /\ LifeIdle
    /\ PingIdle /\ MemberIdle
    /\ ckData \in ClickData
    /\ ckClients \in WindowClients
    /\ ckPc = "idle"
    /\ ckClosed = FALSE
    /\ ckFocused = <<>>
    /\ ckOpened = <<>>
    /\ ckPosted = <<>>
    /\ uiGroups \in SUBSET {GroupId, "G2"}
    /\ uiVentana \in {""} \cup uiGroups
    /\ uiRead = 0

\* the handler up to clients.matchAll(...)
Click ==
    /\ ckPc = "idle"
    /\ ckClosed' = TRUE
    /\ ckPc' = "matching"
    /\ UNCHANGED <<ckData, ckClients, ckFocused, ckOpened, ckPosted, uiGroups, uiVentana,
                   uiRead, nonClickVars>>

\* the callback of matchAll: focus the first matching client, or open a window
Click_Matched ==
    /\ ckPc = "matching"
    /\ LET url == clickUrl(ckData)
           i == firstMatch(ckClients, url)
       IN  IF i # 0
               THEN /\ ckFocused' = Append(ckFocused, i)
                    /\ ckPc' = "focusing"
                    /\ UNCHANGED ckOpened
               ELSE /\ ckOpened' = Append(ckOpened, url)
                    /\ ckPc' = "opening"
                    /\ UNCHANGED ckFocused
    /\ UNCHANGED <<ckData, ckClients, ckClosed, ckPosted, uiGroups, uiVentana, uiRead,
                   nonClickVars>>

\* client.focus() resolved: its callback posts the navigate message
Click_FocusResolved ==
    /\ ckPc = "focusing"
    /\ ckPosted' = ckPosted \o navigateMessages(ckData)
    /\ ckPc' = "done"
    /\ UNCHANGED <<ckData, ckClients, ckClosed, ckFocused, ckOpened, uiGroups, uiVentana,
                   uiRead, nonClickVars>>

\* client.focus() rejected: the callback is skipped
Click_FocusRejected ==
    /\ ckPc = "focusing"
    /\ ckPc' = "done"
    /\ UNCHANGED <<ckData, ckClients, ckClosed, ckFocused, ckOpened, ckPosted, uiGroups,
                   uiVentana, uiRead, nonClickVars>>

\* clients.openWindow(url) settled: nothing is chained on it
Click_OpenSettled ==
    /\ ckPc = "opening"
    /\ ckPc' = "done"
    /\ UNCHANGED <<ckData, ckClients, ckClosed, ckFocused, ckOpened, ckPosted, uiGroups,
                   uiVentana, uiRead, nonClickVars>>

\* handleServiceWorkerMessage(event) for the next posted message
UI_Navigate ==
    /\ uiRead < Len(ckPosted)
    /\ LET data == ckPosted[uiRead + 1]
           groupId == IF "groupId" \in DOMAIN data THEN data.groupId ELSE ""
       IN  IF /\ data.type = "navigate"
              /\ data.action = "show_pending"
              /\ groupId # ""
              /\ groupId \in uiGroups
               THEN uiVentana' = groupId
               ELSE UNCHANGED uiVentana
    /\ uiRead' = uiRead + 1
    /\ UNCHANGED <<ckData, ckClients, ckPc, ckClosed, ckFocused, ckOpened, ckPosted,
                   uiGroups, nonClickVars>>

ClickNext ==
    \/ Click
    \/ Click_Matched
    \/ Click_FocusResolved
    \/ Click_FocusRejected
    \/ Click_OpenSettled
    \/ UI_Navigate

ClickSpec == ClickInit /\ [][ClickNext]_vars


\* ================================================================ claims
\* what the claims speak of
Invoked == Len(calls)                              \* Delivery Sender invocations
Handed(c) == c.st # "skipped"                      \* handed to messaging.send
RangeOf(xs) == {xs[i] : i \in 1..Len(xs)}
RecipientIdsOf(l) == ({l.ownerId} \cup RangeOf(l.members)) \ {""}
RecipientIds == RecipientIdsOf(loc)
SnapHasToken(snap) == snap.exists /\ snap.fcmToken # NoToken
WithToken == {i \in 1..Len(loc.snaps) : SnapHasToken(loc.snaps[i])}
AllRead == loc.snaps # <<>> /\ \A i \in 1..Len(loc.snaps) : loc.snaps[i].read

\* the group handler has resolved the tokens and started the sends
FannedOut == ev.kind = "group" /\ pc \in {"sending", "done"} /\ AllRead

SameText(c, d) ==
    /\ c.msg.notification = d.msg.notification
    /\ c.msg.android.notification.title = d.msg.android.notification.title
    /\ c.msg.android.notification.body = d.msg.android.notification.body
    /\ c.msg.data.title = d.msg.data.title

\* ---------------------------------------------------------------------- C1
\* C1 as stated: after the fan-out of an active group alarm there is exactly
\* one invocation per distinct non-empty id of {owner} \cup members, all with
\* the same title and body, each with a different token.
C1_OneSendPerMember ==
    FannedOut =>
        /\ Invoked = Cardinality(RecipientIds)
        /\ {calls[k].msg.data.userId : k \in 1..Invoked} = RecipientIds
        /\ \A k, l \in 1..Invoked : SameText(calls[k], calls[l])
        /\ \A k, l \in 1..Invoked : k # l => calls[k].msg.token # calls[l].msg.token

\* C1 amended: the ids resolved are the distinct non-empty ids of
\* {owner} \cup members, each once; there is exactly one invocation per
\* resolved id whose user record held a token when it was read, carrying that
\* id and that token, and all invocations carry the same title and body.
C1_OneSendPerTokenHolder ==
    FannedOut =>
        /\ Len(loc.snaps) = Cardinality(RecipientIds)
        /\ {loc.snaps[i].id : i \in 1..Len(loc.snaps)} = RecipientIds
        /\ Invoked = Cardinality(WithToken)
        /\ \A i \in WithToken :
              \E k \in 1..Invoked :
                  /\ Handed(calls[k])
                  /\ calls[k].msg.data.userId = loc.snaps[i].id
                  /\ calls[k].msg.token = loc.snaps[i].fcmToken
        /\ \A k, l \in 1..Invoked :
              /\ SameText(calls[k], calls[l])
              /\ k # l => calls[k].msg.data.userId # calls[l].msg.data.userId

\* the owner is also listed as a member, three ids, three sends, two of them
\* to the same token
C1_Witness ==
    /\ FannedOut
    /\ pc = "done"
    /\ loc.ownerId \in RangeOf(loc.members)
    /\ Cardinality(RecipientIds) = 3
    /\ Invoked = 3
    /\ Cardinality({calls[k].msg.token : k \in 1..Invoked}) = 2

\* ---------------------------------------------------------------------- C2
\* C2: a resolved recipient without a stored token gets no invocation and
\* raises no error: when the group handler has returned after resolving, every
\* invocation was handed to the push service, their number is the number of
\* recipients that had a token, none addresses a recipient without one, and
\* the handler has settled without error.
C2_TokenlessSkipped ==
    (FannedOut /\ pc = "done") =>
        /\ outcome = "ok"
        /\ Cardinality({k \in 1..Invoked : Handed(calls[k])}) = Cardinality(WithToken)
        /\ Invoked = Cardinality(WithToken)
        /\ \A i \in 1..Len(loc.snaps) :
              ~SnapHasToken(loc.snaps[i]) =>
                  \A k \in 1..Invoked : calls[k].msg.data.userId # loc.snaps[i].id

\* owner A, members A, B, C, tokens held by A and C only: two sends, B skipped
C2_Witness ==
    /\ FannedOut
    /\ pc = "done"
    /\ outcome = "ok"
    /\ loc.ownerId = "A"
    /\ loc.members = <<"A", "B", "C">>
    /\ WithToken = {1, 3}
    /\ ~loc.snaps[2].exists \/ loc.snaps[2].fcmToken = NoToken
    /\ Invoked = 2
    /\ \A k \in 1..Invoked : calls[k].st = "delivered"

\* ---------------------------------------------------------------------- C3
\* C3: the group handler starts one send per resolved token before any of
\* them settles, so that no outcome of one send keeps another from starting,
\* and it has returned only when every send has settled.
C3_AllStartedAllAwaited ==
    FannedOut =>
        /\ Invoked = Len(loc.tokens)
        /\ \A k \in 1..Invoked :
              /\ Handed(calls[k])
              /\ calls[k].msg.token = loc.tokens[k].token
        /\ pc = "done" => AllSettled

\* one recipient's send has failed for good (its token was cleared, or the
\* clearing write failed too) and another recipient's send was delivered
C3_Witness ==
    /\ FannedOut
    /\ pc = "done"
    /\ \E k, l \in 1..Invoked :
          /\ calls[k].st = "rejected"
          /\ calls[l].st = "delivered"
          /\ k < l

\* ---------------------------------------------------------------------- C4
\* C4 as stated: once a handler has invoked the Delivery Sender, no
\* invocation rejects and the handler settles without error, whatever the
\* push service and the token-clearing write answer.
C4_DeliveryFailureContained ==
    Invoked > 0 =>
        /\ \A k \in 1..Invoked : ~Rejected(calls[k])
        /\ pc = "done" => outcome = "ok"

\* ---------------------------------------------------------------------- C5
\* C5: at the step in which a send that failed with an invalid-token error
\* returns, the stored token of the user U the message was addressed to is
\* cleared: getFCMTokens([U]) then returns no entry.
C5_ClearedWhenSendReturns ==
    [][ \A k \in 1..Len(calls) :
            ( /\ k <= Len(calls')
              /\ calls[k].st = "clearing"
              /\ calls'[k].st = "cleared" )
            => /\ users'[calls[k].msg.data.userId].fcmToken = NoToken
               /\ getFCMTokens(<<SnapOf(calls[k].msg.data.userId)>>)' = <<>> ]_vars

\* a group fan-out in which B's token was found invalid and cleared
C5_Witness ==
    /\ ev.kind = "group"
    /\ \E k \in 1..Invoked :
          /\ calls[k].st = "cleared"
          /\ calls[k].msg.data.userId = "B"
          /\ loc.ownerId # "B"
          /\ users["B"].fcmToken = NoToken
          /\ getFCMTokens(<<SnapOf("B")>>) = <<>>

\* ---------------------------------------------------------------------- C6
\* C6 as stated: the failure of one user's lookup does not fail the batch:
\* once the group handler has started resolving tokens it does not end with
\* the rejection of a lookup.
C6_LookupFailureContained ==
    (ev.kind = "group" /\ loc.snaps # <<>> /\ pc = "done") => outcome # "get_rejected"

\* ---------------------------------------------------------------------- C7
\* C7: in every message of every handler data.userId is the user the
\* handler addresses (the owner read from the group for join_request and
\* member_left, the alarm's user for personal_alarm, a resolved member for
\* group_alarm) and the token is one that user's record has held; and a
\* stored token is set to null only by the update of a call whose message
\* carries that user's id.
AddressedTo(e, l, uid) ==
    /\ e.kind \in {"join", "left"} => uid = l.ownerId
    /\ e.kind = "personal" => uid = e.uid
    /\ e.kind = "group" => uid \in RecipientIdsOf(l)

C7_UserIdIsRecipient ==
    [][ /\ \A k \in 1..Len(calls') :
              /\ calls'[k].msg.data.userId \in Users
              /\ AddressedTo(ev', loc', calls'[k].msg.data.userId)
              /\ calls'[k].msg.token \in tokenHist'[calls'[k].msg.data.userId]
        /\ \A u \in Users :
              (users[u].fcmToken # NoToken /\ users'[u].fcmToken = NoToken)
              => \E k \in 1..Len(calls) :
                     /\ calls[k].st = "clearing"
                     /\ calls'[k].st = "cleared"
                     /\ calls[k].msg.data.userId = u ]_vars

\* a join request of a user who is not the owner: the owner's token was
\* found invalid and cleared, the requester's token is still stored
C7_Witness ==
    /\ ev.kind = "join"
    /\ pc = "done"
    /\ ev.uid # loc.ownerId
    /\ Invoked = 1
    /\ calls[1].st = "cleared"
    /\ users[loc.ownerId].fcmToken = NoToken
    /\ users[ev.uid].fcmToken # NoToken

\* ---------------------------------------------------------------------- C8
\* C8: as long as no user record read by the handler held a token (the group
\* or the owner id is missing, no id is listed, the user record is missing or
\* holds no token) the Delivery Sender is not invoked, and a handler that
\* returns in that case returns without error unless a read itself failed.
C8_EmptyRecipientsNoSend ==
    WithToken = {} =>
        /\ Invoked = 0
        /\ (pc = "done" /\ outcome # "get_rejected") => outcome = "ok"

\* a group alarm whose recipients were all read: one has no user record, one
\* has a record without token; the handler has returned, nothing was sent
C8_Witness ==
    /\ ev.kind = "group"
    /\ ev.active
    /\ pc = "done"
    /\ outcome = "ok"
    /\ AllRead
    /\ WithToken = {}
    /\ \E i \in 1..Len(loc.snaps) : ~loc.snaps[i].exists
    /\ \E i \in 1..Len(loc.snaps) : loc.snaps[i].exists
    /\ Invoked = 0

\* ---------------------------------------------------------------------- C9
\* C9: an alarm created with active = false and an activity record whose type
\* is not member_left are discarded at once: the handler has returned without
\* error and without any invocation of the Delivery Sender.
Discarded ==
    \/ ev.kind \in {"personal", "group"} /\ ~ev.active
    \/ ev.kind = "left" /\ ev.type # "member_left"

C9_DiscardedNeverSent ==
    Discarded => (Invoked = 0 /\ pc = "done" /\ outcome = "ok")

\* an activity record of another type, every user holding a token
C9_Witness ==
    /\ ev.kind = "left"
    /\ ev.type = "member_joined"
    /\ \A u \in Users : users[u].fcmToken # NoToken
    /\ Invoked = 0
    /\ pc = "done"

\* --------------------------------------------------------------------- C10
\* C10: a join request and a member_left record lead to at most one
\* invocation, and its token is the one read from the record of the owner the
\* group document names.
C10_OwnerOnly ==
    ev.kind \in {"join", "left"} =>
        /\ Invoked <= 1
        /\ \A k \in 1..Invoked :
              /\ Handed(calls[k])
              /\ Len(loc.snaps) = 1
              /\ loc.snaps[1].id = loc.ownerId
              /\ calls[k].msg.token = loc.snaps[1].fcmToken
              /\ calls[k].msg.token \in tokenHist[loc.ownerId]
              /\ calls[k].msg.data.userId = loc.ownerId

\* a member other than the owner left, holding another token than the owner:
\* the one message went to the owner's token
C10_Witness ==
    /\ ev.kind = "left"
    /\ pc = "done"
    /\ ev.uid # loc.ownerId
    /\ Invoked = 1
    /\ calls[1].st = "delivered"
    /\ users[ev.uid].fcmToken # NoToken
    /\ users[ev.uid].fcmToken # calls[1].msg.token

\* the four payload types of the README's "Estructura del payload"
PayloadTypes == {"personal_alarm", "group_alarm", "join_request", "member_left"}
TypeOfKind(k) ==
    CASE k = "personal" -> "personal_alarm" [] k = "group" -> "group_alarm"
      [] k = "join" -> "join_request" [] OTHER -> "member_left"

\* C11: every message handed to the push service has in its data map a
\* groupId that is a string, the empty string for a personal alarm and the
\* group's id otherwise, never absent, and a type that is one of
\* personal_alarm, group_alarm, join_request, member_left (the one of the
\* event that triggered the handler).
C11_TypeAndGroupId ==
    \A i \in 1..Len(calls) :
        Handed(calls[i]) =>
            LET d == calls[i].msg.data
            IN  /\ {"groupId", "type"} \subseteq DOMAIN d
                /\ d.groupId \in STRING
                /\ d.groupId = (IF ev.kind = "personal" THEN "" ELSE GroupId)
                /\ d.type \in PayloadTypes
                /\ d.type = TypeOfKind(ev.kind)

C11_Witness ==
    /\ ev.kind = "personal"
    /\ Len(calls) = 1
    /\ calls[1].st = "delivered"
    /\ calls[1].msg.data.groupId = ""
    /\ calls[1].msg.data.type = "personal_alarm"

TitleOf(c) == c.msg.notification.title

\* C12 as stated: every title handed to the push service is a non-empty
\* string of at most MAX_LENGTH characters, in all four event kinds.
C12_TitleAtMostMaxLength ==
    \A i \in 1..Len(calls) :
        Handed(calls[i]) =>
            /\ TitleOf(calls[i]).kind = "string"
            /\ Len(TitleOf(calls[i]).chars) \in 1..MAX_LENGTH

\* C12 amended: every title handed to the push service is a non-empty
\* string; the title of a personal alarm, a join request and a member-left
\* notification has at most MAX_LENGTH characters, and the title of a group
\* alarm is a label of at most MAX_LENGTH characters followed by " - " and
\* the group's name, so it may be longer than MAX_LENGTH.
C12_TitleNonEmptyLabelBounded ==
    \A i \in 1..Len(calls) :
        Handed(calls[i]) =>
            LET t == TitleOf(calls[i])
                sep == <<" ", "-", " ">>
            IN  /\ t.kind = "string"
                /\ Len(t.chars) >= 1
                /\ ev.kind # "group" => Len(t.chars) <= MAX_LENGTH
                /\ ev.kind = "group" =>
                      \E n \in 1..MAX_LENGTH :
                          /\ Len(t.chars) = n + 3 + Len(loc.groupName)
                          /\ SubSeq(t.chars, n + 1, Len(t.chars)) = sep \o loc.groupName

C12_Witness ==
    /\ ev.kind = "group"
    /\ ev.label = JsStr(LongLabel)
    /\ Len(calls) >= 1
    /\ Handed(calls[1])
    /\ Len(TitleOf(calls[1]).chars) = MAX_LENGTH + 3 + Len(loc.groupName)

IsText(v) == v.kind = "string"
IsTitle(v) == v.kind = "string" /\ v.chars # <<>>

\* C13: whatever title and body the caller passes, every title and body
\* field of the message handed to messaging.send (notification, data and
\* android.notification) is a string, and every title field is non-empty.
C13_TitleBodyFieldsAreStrings ==
    \A i \in 1..Len(calls) :
        Handed(calls[i]) =>
            LET m == calls[i].msg
            IN  /\ IsTitle(m.notification.title)
                /\ IsText(m.notification.body)
                /\ IsTitle(m.data.title)
                /\ IsTitle(m.android.notification.title)
                /\ IsText(m.android.notification.body)

\* the timer scheduleReconnect arms, with the whole threshold ahead
FreshTimer(id) == [id |-> id, left |-> ThresholdTicks]

\* C14: once the network has been offline (from an offline event or from
\* the start of the page) for longer than the threshold with no online
\* event, exactly one reset has been triggered; no offline period ever
\* triggers more than one.
C14_ExactlyOneReset ==
    /\ resetsSince <= 1
    /\ offlineFor > ThresholdTicks => resetsSince = 1

C14_Witness ==
    /\ nOffline = 1
    /\ ~online
    /\ offlineFor > ThresholdTicks
    /\ Len(resets) = 1

\* C15: when an online event has been dispatched no timer is pending and
\* timeoutId is null, whatever the state before; a reset is triggered only
\* after a whole threshold offline, so an offline period ended earlier by an
\* online event triggers none; the offline event after it arms a timer with
\* the whole threshold ahead.
C15_OnlineClearsTimer ==
    [][ /\ (dispatch.event = "online" /\ dispatch'.event = "none")
            => (timers' = {} /\ timeoutId' = 0)
        /\ (online' /\ dispatch'.event = "none") => timers' = {}
        /\ Len(resets') > Len(resets) => (~online /\ offlineFor >= ThresholdTicks)
        /\ (dispatch.event = "offline" /\ dispatch'.event = "none")
            => (timeoutId' # 0 /\ timers' = {FreshTimer(timeoutId')}) ]_vars

\* offline for a while, online again before the threshold, offline again
C15_Witness ==
    /\ nOffline = 2
    /\ ~online
    /\ dispatch.event = "none"
    /\ resets = <<>>
    /\ nextTimer = 3
    /\ timers = {FreshTimer(2)}

\* C16: at most one timer is pending, the one timeoutId names; a call of
\* scheduleReconnect while a timer is armed (a further offline listener, a
\* further startConnectionMonitor) leaves the pending timer as it is: no
\* second timer, no restart.
C16_AtMostOneTimer ==
    /\ [](/\ Cardinality(timers) <= 1
          /\ \A t \in timers : t.id = timeoutId
          /\ timeoutId # 0 => timers # {})
    /\ [][ (/\ timeoutId # 0
            /\ \/ dispatch.event = "offline" /\ dispatch' # dispatch
               \/ monitors' = monitors + 1)
           => UNCHANGED <<timers, timeoutId, nextTimer>> ]_vars

\* two monitors started, an offline event dispatched to both listeners, and
\* seconds later still the one timer of the first
C16_Witness ==
    /\ monitors = 2
    /\ nOffline = 1
    /\ dispatch.event = "none"
    /\ timeoutId = 1
    /\ nextTimer = 2
    /\ timers = {[id |-> 1, left |-> ThresholdTicks - 3]}

\* C17: startConnectionMonitor arms the timer when navigator.onLine is
\* false, with no offline event, and arms none when it is true; started
\* offline, the page has triggered its reset once the network has been down
\* for longer than the threshold with no online event.
C17_ArmedAtStartWhenOffline ==
    /\ [][ (monitors = 0 /\ monitors' = 1)
           => IF online THEN timers' = {} /\ timeoutId' = 0
              ELSE timeoutId' # 0 /\ timers' = {FreshTimer(timeoutId')} ]_vars
    /\ []((nOffline = 0 /\ offlineFor > ThresholdTicks) => Len(resets) = 1)

C17_Witness ==
    /\ nOffline = 0
    /\ ~online
    /\ Len(resets) = 1
    /\ resets[1].steps = <<"terminate">>

StepsOf(i) == resets[i].steps
Attempts(i) == SelectSeq(StepsOf(i), LAMBDA x : x # "warn")
Count(xs, x) == Cardinality({k \in 1..Len(xs) : xs[k] = x})

\* C18 as stated: every invocation that has come to its reload has torn the
\* connection down, then cleared the persisted state, then reloaded.
C18_TeardownClearReload ==
    \A i \in 1..Len(resets) :
        resets[i].at = "done" => Attempts(i) = <<"terminate", "clear", "reload">>

\* the runs of reconnectFirestoreAfterOffline
ResetRuns ==
    { <<"terminate", "clear", "reload">>,
      <<"terminate", "clear", "warn", "reload">>,
      <<"terminate", "warn", "reload">> }
IsPrefix(xs, ys) == Len(xs) <= Len(ys) /\ xs = SubSeq(ys, 1, Len(xs))

\* C18 amended: every invocation tears the connection down first; it clears
\* the persisted state only after the teardown has succeeded; a failure of
\* either step is logged once, the step is not tried again and what is left
\* of the two is skipped; the reload comes last and is performed exactly once.
C18_StepsInOrder ==
    \A i \in 1..Len(resets) :
        /\ \E run \in ResetRuns : IsPrefix(StepsOf(i), run)
        /\ resets[i].at = "done" =>
              /\ StepsOf(i) \in ResetRuns
              /\ Count(StepsOf(i), "reload") = 1
              /\ mphase = "ended"

\* the teardown failed: logged, no clearing, reload
C18_Witness ==
    /\ Len(resets) = 1
    /\ resets[1].at = "done"
    /\ StepsOf(1) = <<"terminate", "warn", "reload">>

\* the title sources in the order of the fallback
TitleSources(payload) ==
    << payload.notification.title, Field(payload.data, "title"),
       Field(payload.data, "label") >>
Usable(v) == v.kind = "string" /\ Trim(v.chars) # <<>>
\* leading and trailing whitespace removed, inner runs of whitespace made one
\* space, the first 100 characters kept
Normalised(s) ==
    LET clean == CollapseWs(Trim(s))
    IN  IF Len(clean) <= 100 THEN clean ELSE SubSeq(clean, 1, 100)
FirstUsable(payload) ==
    LET src == TitleSources(payload)
        usable == {k \in 1..3 : Usable(src[k])}
    IN  IF usable = {} THEN DEFAULT ELSE src[First(usable)].chars

\* C19: the title of the first render attempt is the first usable value
\* among notification.title, data.title, data.label and the default
\* 'Nueva Alarma', whitespace-normalised (and cut to 100 characters); with no
\* notification block and data.label the only title source it is the
\* normalised label ("  Team  Sync  " gives "Team Sync"), and with no
\* notification block and an empty data map it is the default.
C19_TitleSelection ==
    shows # <<>> =>
        LET p == swPayload
            title == shows[1].title
        IN  /\ title = Normalised(FirstUsable(p))
            /\ (~p.notification.present /\ "title" \notin DOMAIN p.data
                    /\ "label" \in DOMAIN p.data)
                => title = Normalised(p.data.label.chars)
            /\ (~p.notification.present /\ Field(p.data, "title").kind = "null"
                    /\ Field(p.data, "label") = JsStr(TeamSync))
                => title = <<"T", "e", "a", "m", " ", "S", "y", "n", "c">>
            /\ (~p.notification.present /\ p.data = Empty) => title = DEFAULT

C19_Witness ==
    /\ Len(shows) = 1
    /\ shows[1].st = "shown"
    /\ ~swPayload.notification.present
    /\ DOMAIN swPayload.data = {"label"}
    /\ shows[1].title = <<"T", "e", "a", "m", " ", "S", "y", "n", "c">>

\* C20: whenever the first render attempt has failed, because the call
\* threw or because its promise rejected, a second attempt has been made
\* with the default title and the first title as data.originalTitle; the
\* renderer does not give up before.
C20_SecondAttemptAfterFailure ==
    (shows # <<>> /\ shows[1].st \in {"failed", "threw"}) =>
        /\ Len(shows) >= 2
        /\ shows[2].title = DEFAULT
        /\ shows[2].options.data.originalTitle = shows[1].title

\* the one notification that owes nothing to the payload: the fixed title,
\* the generic body, the icon and the fixed tag
ContextFree ==
    Show(Alarma, [body |-> JsStr(TienesUnaAlarma), icon |-> "/vite.svg",
                  tag |-> <<"alarm_fallback">>], "pending")

\* C21: whenever the first and the second render attempt have both failed
\* (the call threw or its promise rejected), a third attempt has been made,
\* and it is the same for every payload: the generic body 'Tienes una
\* alarma', no data map, the fixed tag, nothing taken from the payload.
C21_MinimalIsContextFree ==
    (Len(shows) >= 2 /\ shows[1].st = "failed" /\ shows[2].st \in {"failed", "threw"}) =>
        /\ Len(shows) = 3
        /\ [shows[3] EXCEPT !.st = "pending"] = ContextFree

\* C22: whatever the payload and whichever render attempts fail, the promise
\* returned by the background message handler is never rejected.
C22_TaskNeverRejects == swTask # "rejected"


\* the click-routing entries of a notification's data map
Routing(d) == [k \in DOMAIN d \cap {"click_action", "type", "groupId"} |-> d[k]]

\* C23: a push message received in the foreground, with the service worker
\* supported and activated, is displayed with the title, the tag and the
\* click-routing data (click_action, type, groupId) that the background
\* handler displays for the same payload; this holds also for a payload
\* without a notification block.
C23_ForegroundAsBackground ==
    (fgPc = "done" /\ fgReg \notin {"unsupported", "activating"}) =>
        /\ Len(fgShows) = 1
        /\ fgShows[1].title = JsStr(swTitle(fgPayload))
        /\ fgShows[1].options.tag = swOptions(fgPayload).tag
        /\ Routing(fgShows[1].options.data) = Routing(swOptions(fgPayload).data)

\* C24: for every raw string the server's sanitizeAlarmLabel, the client's
\* sanitizeAlarmLabel and the background agent's title sanitization give the
\* same string, also for strings of more than 100 characters.
C24_SanitizersAgree ==
    (raw.kind = "string" /\ srvOut # NotRun /\ cliOut # NotRun /\ swOut # NotRun) =>
        /\ srvOut = cliOut
        /\ cliOut = swOut

\* the raw value is not a string with a character other than whitespace
Blank(v) == v.kind # "string" \/ \A i \in 1..Len(v.chars) : v.chars[i] \in WS
NuevaAlarma == <<"N", "u", "e", "v", "a", " ", "A", "l", "a", "r", "m", "a">>

\* C25: for every raw value (null, a number, the empty string, whitespace,
\* a string of any length) the server's and the client's sanitizeAlarmLabel
\* return a string of 1 to 100 characters, and 'Nueva Alarma' when the value
\* is not a string with something other than whitespace in it.
C25_NonEmptyBoundedDefault ==
    \A out \in {srvOut, cliOut} \ {NotRun} :
        /\ out.kind = "string"
        /\ Len(out.chars) >= 1
        /\ Len(out.chars) <= 100
        /\ Blank(raw) => out.chars = NuevaAlarma

C25_Witness ==
    /\ raw.kind = "string"
    /\ Len(raw.chars) > 100
    /\ srvOut # NotRun
    /\ Len(srvOut.chars) = 100
    /\ cliOut = srvOut

\* C26: sanitizeAlarmLabel applied to its own result returns that result:
\* when the raw label is the result the server's (the client's) sanitizer gave
\* before, the server's (the client's) sanitizer returns it unchanged.
C26_Idempotent ==
    /\ (fedFrom.kind = "server" /\ srvOut # NotRun) => srvOut.chars = fedFrom.chars
    /\ (fedFrom.kind = "client" /\ cliOut # NotRun) => cliOut.chars = fedFrom.chars

\* a truncated label whose 97th character is a space has been sanitized again
C26_Witness ==
    /\ fedFrom.kind = "server"
    /\ srvOut # NotRun
    /\ Len(fedFrom.chars) = 100
    /\ fedFrom.chars[97] = " "
    /\ SubSeq(fedFrom.chars, 98, 100) = <<".", ".", ".">>

\* every invocation of fn logged in l failed with a closed-store error
AllClosed(l) == \A i \in 1..Len(l) : ~l[i].ok /\ isIndexedDBClosedError(l[i].val)

\* C27: while fn has failed k times, each time with a closed-store error, and
\* k is at most maxRetries, the wrapper has not given up; when fn, after k <
\* maxRetries such failures, resolves on invocation k + 1, the wrapper has
\* returned that value after exactly k delays and k + 1 invocations; and an
\* invocation of fn starts only when every earlier one has settled, the last
\* one as a failure.
C27_RetriesUntilSuccess ==
    /\ [](LET n == Len(rtLog)
          IN  /\ (rtPc # "idle" /\ AllClosed(rtLog) /\ n < rtMax)
                    => rtPc \in {"calling", "waiting"}
              /\ (n >= 1 /\ rtLog[n].ok /\ AllClosed(SubSeq(rtLog, 1, n - 1))
                       /\ n - 1 < rtMax)
                    => /\ rtPc = "returned"
                       /\ rtResult = rtLog[n].val
                       /\ Len(rtWaits) = n - 1
                       /\ rtStarted = n)
    /\ [][rtStarted' # rtStarted =>
            /\ rtStarted' = rtStarted + 1
            /\ rtStarted = Len(rtLog)
            /\ rtLog # <<>> => ~rtLog[Len(rtLog)].ok]_vars

C27_Witness ==
    /\ rtPc = "returned"
    /\ rtMax = 3
    /\ Len(rtLog) = 3
    /\ Len(rtWaits) = 2
    /\ rtResult = [kind |-> "value", msg |-> <<"u1">>]

\* C28: while every invocation of fn has failed with a closed-store error,
\* there have been at most maxRetries + 1 of them; the wrapper goes on before
\* that number is reached and, once it is reached, has thrown the error of
\* the last invocation.
C28_ExhaustedRethrows ==
    (rtPc # "idle" /\ AllClosed(rtLog)) =>
        LET n == Len(rtLog)
        IN  /\ n <= rtMax + 1
            /\ rtStarted <= rtMax + 1
            /\ n < rtMax + 1 => rtPc \in {"calling", "waiting"}
            /\ n = rtMax + 1 => (rtPc = "thrown" /\ rtResult = rtLog[n].val)

C28_Witness ==
    /\ rtPc = "thrown"
    /\ rtMax = 3
    /\ Len(rtLog) = 4
    /\ AllClosed(rtLog)
    /\ rtResult = rtLog[4].val

\* C29: when the last invocation of fn has failed with an error that is not
\* of the closed-store kind, whatever the attempt, the wrapper has thrown
\* that error and has not invoked fn again.
C29_OtherErrorRethrown ==
    LET n == Len(rtLog)
    IN  (n >= 1 /\ ~rtLog[n].ok /\ ~isIndexedDBClosedError(rtLog[n].val)) =>
            /\ rtPc = "thrown"
            /\ rtResult = rtLog[n].val
            /\ rtStarted = n
            /\ Len(rtWaits) = n - 1

C29_Witness ==
    /\ rtPc = "thrown"
    /\ Len(rtLog) = 3
    /\ AllClosed(SubSeq(rtLog, 1, 2))
    /\ rtLog[3].val = JsError(<<"Missing", "or", "insufficient", "permissions", ".">>)
    /\ rtResult = rtLog[3].val

\* C30: the agent's state changes only from installing to activating, from
\* activating to activated and from activated to redundant; once the install
\* handler has run the skip-waiting flag is set by its call of skipWaiting(),
\* and every SKIP_WAITING message received calls skipWaiting() too; and
\* whenever the agent is activated, every open UI instance is controlled by it.
C30_LifeCycle ==
    /\ [][swState' # swState =>
            <<swState, swState'>> \in { <<"installing", "activating">>,
                                        <<"activating", "activated">>,
                                        <<"activated", "redundant">> }]_vars
    /\ [](installHandled =>
            (skipWaitingFlag /\ \E i \in 1..Len(skipCalls) : skipCalls[i] = "install"))
    /\ [][(Len(msgs') > Len(msgs) /\ msgs'[Len(msgs')].type = "SKIP_WAITING") =>
            (skipWaitingFlag' /\ skipCalls' = Append(skipCalls, "message"))]_vars
    /\ [](swState = "activated" => \A w \in DOMAIN windows : windows[w] = "this")

\* activated with pages open that no worker controlled before, taken over by
\* clients.claim(), after a SKIP_WAITING message
C30_Witness ==
    /\ swState = "activated"
    /\ claimed # {}
    /\ claimed \subseteq DOMAIN windows
    /\ \A w \in DOMAIN windows : windows[w] = "this"
    /\ skipCalls = <<"install", "message">>

\* the handler's promise has been resolved or rejected
TaskSettled == swTask \in {"resolved", "rejected"}
Outstanding == {i \in 1..Len(shows) : shows[i].st = "pending"}

\* C31: once a push message has been received in the background a
\* showNotification call has been made for it, and the promise the handler
\* returned is never settled while a showNotification call made for that
\* message is still pending: it settles only with or after the last call.
C31_SettlesAfterLastAttempt ==
    /\ swTask # "none" => shows # <<>>
    /\ TaskSettled => Outstanding = {}
    /\ Outstanding # {} => (swTask = "pending" /\ Outstanding = {Len(shows)})

C31_Witness ==
    /\ swTask = "resolved"
    /\ Len(shows) = 3
    /\ shows[1].st = "failed"
    /\ shows[2].st = "failed"
    /\ shows[3].st = "shown"

\* the click-routing table: type and groupId to target
Target(type, g) ==
    IF type = "join_request" /\ g # "" THEN <<"/?groupId=", g, "&pending=true">>
    ELSE IF type \in {"group_alarm", "member_left"} /\ g # "" THEN <<"/?groupId=", g>>
    ELSE <<"/">>

\* C32: for a payload whose type is join_request, group_alarm, member_left
\* or personal_alarm, or whose groupId is empty or missing, the click_action
\* stored in the data of the first and of the second showNotification call is
\* the target the table gives for the payload's type and groupId, also when
\* the payload's data map has a click_action of its own.
C32_ClickTarget ==
    \A i \in 1..Len(shows) :
        LET d == swPayload.data
            type == IF "type" \in DOMAIN d THEN d.type ELSE ""
            g == IF "groupId" \in DOMAIN d THEN d.groupId ELSE ""
        IN  (i <= 2 /\ (g = "" \/ type \in {"join_request", "group_alarm", "member_left",
                                            "personal_alarm"}))
                => shows[i].options.data.click_action = Target(type, g)

C32_Witness ==
    /\ Len(shows) = 1
    /\ shows[1].st = "shown"
    /\ "click_action" \in DOMAIN swPayload.data
    /\ swPayload.data.click_action = <<"/other">>
    /\ shows[1].options.data.type = "join_request"
    /\ shows[1].options.data.click_action = <<"/?groupId=", GroupId, "&pending=true">>

\* ---- C33
\* the navigate instruction of a notification's type and groupId
Instruction(data) ==
    LET type == FieldOr(data, "type", "")
        groupId == FieldOr(data, "groupId", "")
    IN  IF type = "join_request"
            THEN [type |-> "navigate", groupId |-> groupId, action |-> "show_pending"]
        ELSE IF type \in {"group_alarm", "member_left"}
            THEN [type |-> "navigate", groupId |-> groupId, action |-> "show_group"]
        ELSE [type |-> "navigate", action |-> "show_personal"]

\* the notification is of one of the four routed types and names its group
Routed(data) ==
    \/ FieldOr(data, "type", "") = "personal_alarm"
    \/ /\ FieldOr(data, "type", "") \in {"join_request", "group_alarm", "member_left"}
       /\ FieldOr(data, "groupId", "") # ""

\* C33: a handled click has focused one open window of the app's origin, or,
\* when there is none, opened exactly one window at the click target, never
\* both; and for a join_request, group_alarm, member_left or personal_alarm
\* notification it has then posted the navigate instruction of that type
C33_ClickRoutes ==
    ckPc = "done" =>
        /\ Len(ckFocused) + Len(ckOpened) = 1
        /\ ckClients # <<>> => Len(ckFocused) = 1
        /\ ckClients = <<>> => ckOpened = <<clickUrl(ckData)>>
        /\ Routed(ckData) => ckPosted = <<Instruction(ckData)>>

\* C33, the part of it that holds: one window is focused or one is opened at the
\* click target, never both
C33_FocusOrOpen ==
    ckPc = "done" =>
        /\ Len(ckFocused) + Len(ckOpened) = 1
        /\ ckClients # <<>> => Len(ckFocused) = 1
        /\ ckClients = <<>> => ckOpened = <<clickUrl(ckData)>>

\* a click on a group alarm with no window open: a window was opened and
\* nothing was posted
C33_OpenedWithoutInstruction ==
    /\ ckPc = "done"
    /\ Routed(ckData)
    /\ Len(ckOpened) = 1
    /\ ckPosted = <<>>

\* ---- C34
\* C34: when the page handles a navigate message, show_pending and show_group
\* select the group named by groupId if the user belongs to it, and
\* show_personal selects the personal view
C34_NavigateSwitchesView ==
    [][ uiRead' = uiRead + 1 =>
          LET data == ckPosted[uiRead + 1]
              groupId == IF "groupId" \in DOMAIN data THEN data.groupId ELSE ""
          IN  /\ (data.action \in {"show_pending", "show_group"} /\ groupId \in uiGroups)
                    => uiVentana' = groupId
              /\ data.action = "show_personal" => uiVentana' = "" ]_vars

\* C34, the part of it that holds: show_pending selects the group named by
\* groupId when the user belongs to it
C34_ShowPendingSelects ==
    [][ uiRead' = uiRead + 1 =>
          LET data == ckPosted[uiRead + 1]
          IN  (data.action = "show_pending" /\ data.groupId \in uiGroups)
                 => uiVentana' = data.groupId ]_vars

\* a show_group message for a group of the user was handled and the page is
\* still on another view
C34_ShowGroupIgnored ==
    /\ uiRead = 1
    /\ ckPosted[1].action = "show_group"
    /\ ckPosted[1].groupId \in uiGroups
    /\ uiVentana # ckPosted[1].groupId

\* ---- C35
\* the control message handled by this step, when it handles one
Handled == msgs'[Len(msgs')]

\* C35: a CACHE_ALARMS message whose alarms field is a list replaces the cache
\* by exactly that list; every other control message, and every other step,
\* leaves the cache as it was
C35_CacheReplacedWholesale ==
    [][ IF msgs' # msgs
           THEN IF Handled.type = "CACHE_ALARMS" /\ Handled.isArray
                   THEN cachedAlarms' = Handled.alarms
                   ELSE cachedAlarms' = cachedAlarms
           ELSE cachedAlarms' = cachedAlarms ]_vars

\* a filled cache was replaced by the empty list of a second CACHE_ALARMS message
C35_Witness ==
    /\ Len(msgs) = 2
    /\ msgs[1].type = "CACHE_ALARMS" /\ msgs[1].isArray /\ msgs[1].alarms = <<"a1">>
    /\ msgs[2].type = "CACHE_ALARMS" /\ msgs[2].isArray /\ msgs[2].alarms = <<>>
    /\ cachedAlarms = <<>>

ChainInOrder ==
    /\ Len(shows) <= 3
    /\ Len(shows) >= 1 => shows[1].title = swTitle(swPayload)
    /\ Len(shows) >= 2 => shows[2].title = DEFAULT
    /\ Len(shows) >= 3 => /\ shows[3].title = Alarma
                          /\ shows[3].options.tag = <<"alarm_fallback">>
    /\ \A i \in 2..Len(shows) : shows[i - 1].st = "failed"
    /\ \A i \in 1..Len(shows) : shows[i].st = "shown" => i = Len(shows)
    /\ Cardinality({i \in 1..Len(shows) : shows[i].st = "shown"}) <= 1

\* C37: for a received background message the render attempts are made in the
\* order custom title, default title, minimal notification, each only after
\* the previous one failed and none after one succeeded, so at most three are
\* made and at most one notification is displayed; and once no attempt is
\* outstanding the handler's task has settled
C37_FallbackChain ==
    /\ ChainInOrder
    /\ (swTask # "none" /\ Outstanding = {}) => TaskSettled

\* C37, the part of it that holds: order, short circuit, at most three attempts,
\* at most one notification, and a settled task never settles again
C37_ChainShortCircuits ==
    /\ []ChainInOrder
    /\ [][TaskSettled => swTask' = swTask]_vars

\* the third showNotification call threw inside the catch callback: every
\* attempt is over and the task is still pending
C37_NeverSettles ==
    /\ Len(shows) = 3
    /\ shows[3].st = "threw"
    /\ swTask = "pending"

\* ---- C38
\* a reset has started and the page has not been reloaded yet
ResetInFlight == \E i \in 1..Len(resets) : resets[i].at # "done"

\* C38: while a reset is in flight no step arms a new timer, and between the
\* start of the page and its reload the reset is started at most once
C38_NoTimerDuringReset ==
    /\ [](Len(resets) <= 1)
    /\ [][ResetInFlight => {t.id : t \in timers'} \subseteq {t.id : t \in timers}]_vars

\* the teardown of the first reset is still waiting for terminate() when a
\* second reset starts
C38_SecondResetDuringTeardown ==
    /\ Len(resets) = 2
    /\ resets[1].at = "terminate"
    /\ resets[2].at = "terminate"
    /\ mphase = "run"

\* C38 as amended: while a reset is in flight a new timer is armed only by the
\* listener of an offline event and only when none is pending, each offline
\* period starts at most one reset, and a reset that starts while another is
\* in flight belongs to a later offline period than the page's first
C38_TimerOnlyByOfflineEvent ==
    /\ [](resetsSince <= 1 /\ Cardinality(timers) <= 1)
    /\ [][ (ResetInFlight /\ ~({t.id : t \in timers'} \subseteq {t.id : t \in timers}))
              => (dispatch.event = "offline" /\ timers = {} /\ timeoutId = 0) ]_vars
    /\ [][ (ResetInFlight /\ Len(resets') > Len(resets))
              => (~online /\ nOffline >= 1 /\ resetsSince = 0
                  /\ offlineFor >= ThresholdTicks) ]_vars

\* ---- C39
\* C39: when the invalidation write of a failed send resolves and the token
\* stored for the user is by then another one than the token the send failed
\* for, the stored token is left in place
C39_FreshTokenSurvives ==
    [][ \A i \in 1..Len(calls) :
          (i <= Len(calls') /\ calls[i].st = "clearing" /\ calls'[i].st = "cleared")
             => LET u == ClearTarget(i)
                IN  users[u].fcmToken \notin {NoToken, calls[i].msg.token}
                       => users'[u].fcmToken = users[u].fcmToken ]_vars

\* the client stored a fresh token after the old one was resolved, the send to
\* the old token failed, and the invalidation left the user without a token
C39_FreshTokenWiped ==
    \E i \in 1..Len(calls) :
        /\ calls[i].st = "cleared"
        /\ tokenHist[ClearTarget(i)] \ {calls[i].msg.token} # {}
        /\ nSaves = 1
        /\ users[ClearTarget(i)].fcmToken = NoToken

\* ---- C40
\* C40: the rejected-request check calls clearMyGroup only when the member list
\* was read and does not contain the user; a read that failed for good is not
\* taken for an answer
C40_ClearedOnlyWhenNotMember ==
    mCleared =>
        /\ rtPc = "returned"
        /\ rtResult.kind = "value"
        /\ \A i \in 1..Len(rtResult.msg) : rtResult.msg[i] # mUid

\* C40, the part of it that holds: a user found in the member list that was
\* read keeps the group association
C40_MemberKeepsGroup ==
    (rtPc = "returned" /\ rtResult.kind = "value"
        /\ \E i \in 1..Len(rtResult.msg) : rtResult.msg[i] = mUid)
      => (~mCleared /\ mProfileGroup = GroupId)

\* the read failed after the wrapper's retries were used up, and the user's
\* group association was cleared
C40_ClearedOnFailedRead ==
    /\ rtPc = "thrown"
    /\ rtAttempt >= 1
    /\ mCleared
    /\ mProfileGroup = ""
=============================================================================
